---- MODULE Spec2Model ----
(***************************************************************************)
(* Model of the parser of nomad-lang (src/src/parser).  The lexer hands    *)
(* the parser a token queue; the parser functions are recursive descent    *)
(* over that queue.  Every parser function is an operator that takes the   *)
(* queue and returns a result record holding the queue it leaves behind.   *)
(***************************************************************************)
EXTENDS Integers, Sequences, FiniteSets, TLC

VARIABLES tokens, pc, result, entry, parse_mode, prog, cg

vars == <<tokens, pc, result, entry, parse_mode, prog, cg>>

(***************************************************************************)
(* Bounds of the model.                                                    *)
(***************************************************************************)
MaxOps == 3
MaxLen == 5
MaxLexeme == 4
MaxLines == 3
MaxArgs == 2
MaxStatements == 2
MaxBody == 2

(***************************************************************************)
(* Operators (tokens.rs) and their precedence.                             *)
(***************************************************************************)
TOP_PRECEDENCE == 2000

Comparisons ==
    {"LessThan", "GreaterThan", "LessThanEquals", "GreaterThanEquals", "Equals", "NotEquals"}

\* The variants of enum Operator in tokens.rs.
Operator == {"Add", "Sub", "Mul", "Div", "Mod", "Not", "And", "Or"} \cup Comparisons

\* The operators expressions.rs uses on top of those: x = e, x += e, x -= e.
AssignmentOperators == {"Assign", "AddAssign", "SubAssign"}

precedence(op) ==
    CASE op = "Not" -> TOP_PRECEDENCE
      [] op \in {"Mul", "Div", "Mod"} -> TOP_PRECEDENCE - 100
      [] op \in {"Add", "Sub"} -> TOP_PRECEDENCE - 200
      [] op \in Comparisons -> TOP_PRECEDENCE - 300
      [] op = "And" -> TOP_PRECEDENCE - 400
      [] op = "Or" -> TOP_PRECEDENCE - 500

\* Not => false, every other variant of the enum => true.
is_binary_operator(op) == op \in Operator /\ op # "Not"

is_assignment(op) == op \in AssignmentOperators

(***************************************************************************)
(* Positions, spans and tokens.  A position is a number; the i-th token    *)
(* of the stream spans the positions 2i-1 .. 2i.                           *)
(***************************************************************************)
Min(a, b) == IF a <= b THEN a ELSE b
Max(a, b) == IF a >= b THEN a ELSE b

Span_new(s, e) == [start |-> s, end |-> e]

Span_merge(a, b) == [start |-> Min(a.start, b.start), end |-> Max(a.end, b.end)]

Token_new(kind, val, level, n) ==
    [kind |-> kind, val |-> val, level |-> level, span |-> Span_new(2 * n - 1, 2 * n)]

\* The lexer appends one token to the stream it has produced so far.
Lex(toks, kind, val, level) == Append(toks, Token_new(kind, val, level, Len(toks) + 1))

(***************************************************************************)
(* Results of parser functions: Ok(value) or Err(error), with the queue.   *)
(***************************************************************************)
Ok(v, tq) == [ok |-> TRUE, val |-> v, tq |-> tq]

\* The error carries the number of tokens consumed when it was raised, and the
\* queue keeps the history of the errors raised on it.
err(pos, kind, tq) ==
    LET e == [kind |-> kind, pos |-> pos, npop |-> tq.npop] IN
    [ok |-> FALSE, error |-> e, tq |-> [tq EXCEPT !.errors = Append(@, e)]]

None == [node |-> "None"]

(***************************************************************************)
(* The token queue.  npop counts the tokens consumed so far and errors is   *)
(* the history of the errors raised so far.                                *)
(***************************************************************************)
\* lookahead is the largest index the parser has inspected, pushed the
\* number of pushed-back tokens not yet consumed again, rewind the largest
\* number there has been, rounds the number of rounds the loops of the parser
\* have completed, and stalled whether one of them has handed the next round
\* a queue that is no shorter.
TokenQueue_new(toks) ==
    [tokens |-> Lex(toks, "EOF", "", 0), last_pos |-> 0, npop |-> 0, errors |-> <<>>,
     lookahead |-> 0, pushed |-> 0, rewind |-> 0, rounds |-> 0, stalled |-> FALSE]

peek(tq) == Head(tq.tokens)

NoToken == [kind |-> "None", val |-> "", level |-> 0, span |-> Span_new(0, 0)]

peek_at(tq, k) == IF k + 1 <= Len(tq.tokens) THEN tq.tokens[k + 1] ELSE NoToken

tq_pos(tq) == tq.last_pos

\* EOF is never consumed: a pop at EOF returns the EOF token and leaves it.
pop(tq) ==
    LET tok == Head(tq.tokens) IN
    IF tok.kind = "EOF"
    THEN Ok(tok, tq)
    ELSE Ok(tok, [tq EXCEPT !.tokens = Tail(@), !.last_pos = tok.span.end, !.npop = @ + 1,
                            !.pushed = IF @ > 0 THEN @ - 1 ELSE 0])

push_front(tq, tok) ==
    [tq EXCEPT !.tokens = <<tok>> \o @,
               !.pushed = @ + 1,
               !.rewind = IF tq.pushed + 1 > @ THEN tq.pushed + 1 ELSE @]

\* The queue a round of a loop that started with tq hands to the next round.
Round(tq, next) ==
    [next EXCEPT !.rounds = @ + 1,
                 !.stalled = @ \/ Len(next.tokens) >= Len(tq.tokens)]

\* The queue after the parser has inspected its k-th upcoming token.
looked_at(tq, k) == [tq EXCEPT !.lookahead = IF k > @ THEN k ELSE @]

is_next(tq, kind) == peek(tq).kind = kind

is_next_operator(tq, op) == peek(tq).kind = "Operator" /\ peek(tq).val = op

is_next_at(tq, k, kind) == peek_at(tq, k).kind = kind

expect(tq, kind) ==
    LET r == pop(tq) IN
    IF r.val.kind = kind THEN r ELSE err(r.val.span.start, "UnexpectedToken", r.tq)

expect_operator_tok(tq, op) ==
    LET r == pop(tq) IN
    IF r.val.kind = "Operator" /\ r.val.val = op
    THEN r
    ELSE err(r.val.span.start, "UnexpectedToken", r.tq)

expect_operator(tq) ==
    LET r == pop(tq) IN
    IF r.val.kind = "Operator"
    THEN Ok(r.val.val, r.tq)
    ELSE err(r.val.span.start, "UnexpectedToken", r.tq)

expect_identifier(tq) ==
    LET r == pop(tq) IN
    IF r.val.kind = "Identifier" THEN r ELSE err(r.val.span.start, "UnexpectedToken", r.tq)

expect_string(tq) ==
    LET r == pop(tq) IN
    IF r.val.kind = "StringLiteral"
    THEN Ok([file |-> r.val.val, end_pos |-> r.val.span.end], r.tq)
    ELSE err(r.val.span.start, "UnexpectedToken", r.tq)

is_next_identifier(tq) == peek(tq).kind = "Identifier"

NoIndent == -1

next_indent(tq) == IF peek(tq).kind = "Indent" THEN peek(tq).level ELSE NoIndent

expect_indent(tq) ==
    LET r == pop(tq) IN
    IF r.val.kind = "Indent"
    THEN Ok(r.val.level, r.tq)
    ELSE err(r.val.span.start, "UnexpectedToken", r.tq)

(***************************************************************************)
(* Expressions (ast/expression.rs and the constructors expressions.rs      *)
(* calls).                                                                 *)
(***************************************************************************)
name_ref(id, span) == [node |-> "NameRef", name |-> id, span |-> span]

IntLiteral(span, v) == [node |-> "IntLiteral", v |-> v, span |-> span]

FloatLiteral(span, lexeme) == [node |-> "FloatLiteral", v |-> lexeme, span |-> span]

StringLiteral(span, s) == [node |-> "StringLiteral", v |-> s, span |-> span]

Enclosed(span, e) == [node |-> "Enclosed", expression |-> e, span |-> span]

unary_op(op, e, span) ==
    [node |-> "UnaryOp", operator |-> op, expression |-> e, span |-> span]

pf_unary_op(op, e, span) ==
    [node |-> "PostFixUnaryOp", operator |-> op, expression |-> e, span |-> span]

bin_op(op, left, right, span) ==
    [node |-> "BinaryOp", operator |-> op, left |-> left, right |-> right, span |-> span]

bin_op2(op, left, right, span) == bin_op(op, left, right, span)

assignment(op, left, right, span) ==
    [node |-> "Assignment", operator |-> op, left |-> left, right |-> right, span |-> span]

Call_new(name, args, span) == [node |-> "Call", name |-> name, args |-> args, span |-> span]

object_construction(name, args, span) ==
    [node |-> "ObjectConstruction", name |-> name, args |-> args, span |-> span]

MemberAccess_new(name, member, span) ==
    [node |-> "MemberAccess", name |-> name, member |-> member, span |-> span]

(***************************************************************************)
(* Statements (the constructors statements.rs calls).                      *)
(***************************************************************************)
Block_new(statements) == [node |-> "Block", statements |-> statements]

While_new(cond, block, span) ==
    [node |-> "While", cond |-> cond, block |-> block, span |-> span]

ElsePart_Empty == [node |-> "Empty"]

ElsePart_If(i) == [node |-> "ElseIf", stmt |-> i]

ElsePart_Block(b) == [node |-> "ElseBlock", block |-> b]

If_new(cond, if_block, else_part, span) ==
    [node |-> "If", cond |-> cond, if_block |-> if_block, else_part |-> else_part,
     span |-> span]

Return_new(e, span) == [node |-> "Return", expression |-> e, span |-> span]

Import_new(file, span) == [node |-> "Import", file |-> file, span |-> span]

Type_Void == [type |-> "Void"]

Type_Primitive(pos, name) == [type |-> "Primitive", pos |-> pos, name |-> name]

Variable_new(name, typ, constants, public, expr, span) ==
    [node |-> "Variable", name |-> name, typ |-> typ, is_const |-> constants,
     public |-> public, init |-> expr, span |-> span]

Statement_Variable(v) == [node |-> "Variables", vars |-> v]

Statement_Expression(e) == [node |-> "Expression", expression |-> e, span |-> e.span]

Span_zero == Span_new(0, 0)

Type_Struct(pos, name) == [type |-> "Struct", pos |-> pos, name |-> name]

Type_Union(pos, name) == [type |-> "Union", pos |-> pos, name |-> name]

Argument_new(name, typ, constant, span) ==
    [name |-> name, typ |-> typ, constant |-> constant, span |-> span]

Function_new(name, ret_type, args, public, block, span) ==
    [node |-> "Function", name |-> name, return_type |-> ret_type, args |-> args,
     public |-> public, block |-> block, span |-> span]

Struct_new(name, public, span) ==
    [node |-> "Struct", name |-> name, public |-> public, variables |-> <<>>,
     functions |-> <<>>, span |-> span]

UnionCase_new(name, span) == [name |-> name, vars |-> <<>>, span |-> span]

Union_new(name, public, span) ==
    [node |-> "Union", name |-> name, public |-> public, cases |-> <<>>,
     functions |-> <<>>, span |-> span]

MatchCase_new(name, bindings, block, span) ==
    [name |-> name, bindings |-> bindings, block |-> block, span |-> span]

Match_new(expr, span) == [node |-> "Match", expr |-> expr, cases |-> <<>>, span |-> span]

Module_new(block) == [node |-> "Module", block |-> block]

Expression_precedence(e) == IF e.node = "BinaryOp" THEN precedence(e.operator) ELSE 0

(***************************************************************************)
(* Number lexemes are sequences of characters.  str::parse::<f64> and      *)
(* str::parse::<u64> are modelled by the grammar they accept.              *)
(***************************************************************************)
Digits == {"0", "1", "2", "3", "4", "5", "6", "7", "8", "9"}

AllDigits(s) == \A i \in 1..Len(s) : s[i] \in Digits

contains(s, c) == \E i \in 1..Len(s) : s[i] = c

IndexOf(s, c) == IF contains(s, c) THEN CHOOSE i \in 1..Len(s) : s[i] = c /\ \A j \in 1..(i - 1) : s[j] # c ELSE 0

\* [+-]? digits+
IsExponent(s) ==
    LET d == IF s # <<>> /\ s[1] \in {"+", "-"} THEN Tail(s) ELSE s IN
    d # <<>> /\ AllDigits(d)

\* digits* ('.' digits*)? with at least one digit
IsMantissa(s) ==
    LET dot == IndexOf(s, ".")
        int == IF dot = 0 THEN s ELSE SubSeq(s, 1, dot - 1)
        frac == IF dot = 0 THEN <<>> ELSE SubSeq(s, dot + 1, Len(s))
    IN  AllDigits(int) /\ AllDigits(frac) /\ (int # <<>> \/ frac # <<>>)

\* [+-]? mantissa ([eE] exponent)?
parse_f64_ok(num) ==
    LET s == IF num # <<>> /\ num[1] \in {"+", "-"} THEN Tail(num) ELSE num
        e == IF contains(s, "e") /\ (~contains(s, "E") \/ IndexOf(s, "e") < IndexOf(s, "E"))
             THEN IndexOf(s, "e")
             ELSE IndexOf(s, "E")
    IN  IF e = 0
        THEN IsMantissa(s)
        ELSE IsMantissa(SubSeq(s, 1, e - 1)) /\ IsExponent(SubSeq(s, e + 1, Len(s)))

RECURSIVE StripZeros(_)
StripZeros(s) == IF Len(s) > 1 /\ s[1] = "0" THEN StripZeros(Tail(s)) ELSE s

DigitValue(c) == CHOOSE n \in 0..9 : <<"0", "1", "2", "3", "4", "5", "6", "7", "8", "9">>[n + 1] = c

U64_MAX == <<"1", "8", "4", "4", "6", "7", "4", "4", "0", "7", "3", "7", "0", "9", "5", "5", "1", "6", "1", "5">>

RECURSIVE NumeralLeq(_, _)
NumeralLeq(a, b) ==
    IF a = <<>> THEN TRUE
    ELSE IF DigitValue(a[1]) # DigitValue(b[1]) THEN DigitValue(a[1]) < DigitValue(b[1])
    ELSE NumeralLeq(Tail(a), Tail(b))

\* '+'? digits+, the value at most 2^64 - 1.  The value is kept as its numeral
\* without leading zeros.
parse_u64_digits(num) == IF num # <<>> /\ num[1] = "+" THEN Tail(num) ELSE num

parse_u64_ok(num) ==
    LET d == parse_u64_digits(num)
        n == StripZeros(d)
    IN  /\ d # <<>>
        /\ AllDigits(d)
        /\ \/ Len(n) < Len(U64_MAX)
           \/ Len(n) = Len(U64_MAX) /\ NumeralLeq(n, U64_MAX)

parse_u64(num) == StripZeros(parse_u64_digits(num))

parse_number(num, span, tq) ==
    IF contains(num, ".") \/ contains(num, "e")
    THEN IF parse_f64_ok(num)
         THEN Ok(FloatLiteral(span, num), tq)
         ELSE err(span.start, "InvalidFloatingPoint", tq)
    ELSE IF parse_u64_ok(num)
         THEN Ok(IntLiteral(span, parse_u64(num)), tq)
         ELSE err(span.start, "InvalidInteger", tq)

(***************************************************************************)
(* The expression parser (expressions.rs).                                 *)
(***************************************************************************)
is_end_of_expression(tok) ==
    tok.kind \notin {"Operator", "Number", "Identifier", "StringLiteral", "OpenParen"}

\* The parser functions call each other recursively.  A call of a parser
\* function is written Parse(<name>, <arguments>); Parse, at the end of the
\* parser, applies the function of that name.
RECURSIVE Parse(_, _)

parse_unary_expression(tq, indent_level, op, op_pos) ==
    IF op \in {"Not", "Sub", "Increment", "Decrement"}
    THEN LET se == Parse("parse_expression", <<tq, indent_level>>) IN
         IF ~se.ok THEN se
         ELSE Ok(unary_op(op, se.val, Span_new(op_pos, tq_pos(se.tq))), se.tq)
    ELSE err(op_pos, "InvalidUnaryOperator", tq)

\* rotate with the span of the rotated node left at the span of its left part.
rotate_left_span(op, prec, lhs, rhs) ==
    IF rhs.node = "BinaryOp"
    THEN IF precedence(rhs.operator) <= prec
         THEN LET span == Span_merge(lhs.span, rhs.left.span)
                  e == bin_op2(op, lhs, rhs.left, span)
              IN  bin_op2(rhs.operator, e, rhs.right, span)
         ELSE bin_op(op, lhs, rhs, Span_merge(rhs.span, lhs.span))
    ELSE bin_op(op, lhs, rhs, Span_merge(lhs.span, rhs.span))

\* The match on rhs in parse_binary_op_rhs: the new lhs built from lhs op rhs.
rotate(op, prec, lhs, rhs) ==
    IF rhs.node = "BinaryOp"
    THEN IF precedence(rhs.operator) <= prec
         THEN LET span == Span_merge(lhs.span, rhs.left.span)
                  e == bin_op2(op, lhs, rhs.left, span)
              IN  bin_op2(rhs.operator, e, rhs.right, Span_merge(span, rhs.right.span))
         ELSE bin_op(op, lhs, rhs, Span_merge(rhs.span, lhs.span))
    ELSE bin_op(op, lhs, rhs, Span_merge(lhs.span, rhs.span))

\* One round of the loop of parse_binary_op_rhs.
parse_binary_op_rhs(tq, indent_level, lhs) ==
    IF is_end_of_expression(peek(tq))
    THEN Ok(lhs, tq)
    ELSE LET prec == IF peek(tq).kind = "Operator" /\ peek(tq).val \in Operator
                     THEN precedence(peek(tq).val)
                     ELSE 0
         IN  IF prec < Expression_precedence(lhs)
             THEN Ok(lhs, tq)
             ELSE LET op == expect_operator(tq) IN
                  IF ~op.ok THEN op
                  ELSE LET rhs == Parse("parse_expression", <<op.tq, indent_level>>) IN
                       IF ~rhs.ok THEN rhs
                       ELSE Parse("parse_binary_op_rhs",
                                  <<Round(tq, rhs.tq), indent_level,
                                    rotate(op.val, prec, lhs, rhs.val)>>)

\* The while loop of parse_function_call and of parse_object_construction:
\* expressions up to the closing token, each followed by an optional comma.
parse_arguments(tq, indent_level, close, args) ==
    IF is_next(tq, close)
    THEN Ok(args, tq)
    ELSE LET expr == Parse("parse_expression", <<tq, indent_level>>) IN
         IF ~expr.ok THEN expr
         ELSE Parse("parse_arguments",
                    <<Round(tq, IF is_next(expr.tq, "Comma") THEN pop(expr.tq).tq ELSE expr.tq),
                      indent_level, close, Append(args, expr.val)>>)

parse_function_call(tq, indent_level, name, pos) ==
    LET open == expect(tq, "OpenParen") IN
    IF ~open.ok THEN open
    ELSE LET args == Parse("parse_arguments", <<open.tq, indent_level, "CloseParen", <<>> >>) IN
         IF ~args.ok THEN args
         ELSE LET close == pop(args.tq) IN
              Ok(Call_new(name, args.val, Span_new(pos, tq_pos(close.tq))), close.tq)

parse_assignment(tq, indent_level, lhs, op, pos) ==
    LET e == Parse("parse_expression", <<pop(tq).tq, indent_level>>) IN
    IF ~e.ok THEN e
    ELSE Ok(assignment(op, lhs, e.val, Span_new(pos, tq_pos(e.tq))), e.tq)

parse_object_construction(tq, indent_level, name, pos) ==
    LET open == expect(tq, "OpenCurly") IN
    IF ~open.ok THEN open
    ELSE LET params == Parse("parse_arguments", <<open.tq, indent_level, "CloseCurly", <<>> >>) IN
         IF ~params.ok THEN params
         ELSE LET close == expect(params.tq, "CloseCurly") IN
              IF ~close.ok THEN close
              ELSE Ok(object_construction(name, params.val, Span_new(pos, tq_pos(close.tq))),
                      close.tq)

parse_member_access(tq, indent_level, name, pos) ==
    LET dot == expect_operator_tok(tq, "Dot") IN
    IF ~dot.ok THEN dot
    ELSE LET id == expect_identifier(dot.tq) IN
         IF ~id.ok THEN id
         ELSE LET next_name == id.val.val
                  next_name_pos == id.val.span.start
                  member ==
                      IF is_next(id.tq, "OpenParen")
                      THEN Parse("parse_function_call",
                                 <<id.tq, indent_level, next_name, next_name_pos>>)
                      ELSE IF is_next_operator(id.tq, "Dot")
                      THEN Parse("parse_member_access",
                                 <<id.tq, indent_level, next_name, next_name_pos>>)
                      ELSE Ok(name_ref(next_name, Span_new(next_name_pos, tq_pos(id.tq))), id.tq)
              IN  IF ~member.ok THEN member
                  ELSE Ok(MemberAccess_new(name, member.val, Span_new(pos, tq_pos(member.tq))),
                          member.tq)

\* postfix_rewrite with the two compound assignments swapped.
postfix_rewrite_swapped(op, id, span) ==
    assignment(IF op = "Increment" THEN "SubAssign" ELSE "AddAssign",
               name_ref(id, span), IntLiteral(span, <<"1">>), span)

\* Turn x++ in x += 1, and x-- in x -= 1.
postfix_rewrite(op, id, span) ==
    assignment(IF op = "Increment" THEN "AddAssign" ELSE "SubAssign",
               name_ref(id, span), IntLiteral(span, <<"1">>), span)

parse_primary_expression(tq, indent_level, tok) ==
    CASE tok.kind = "OpenParen" ->
            LET expr == Parse("parse_expression", <<tq, indent_level>>) IN
            IF ~expr.ok THEN expr
            ELSE LET close == expect(expr.tq, "CloseParen") IN
                 IF ~close.ok THEN close
                 ELSE Ok(Enclosed(Span_new(tok.span.start, tq_pos(close.tq)), expr.val), close.tq)
      [] tok.kind = "Identifier" ->
            LET next == peek(tq) IN
            CASE next.kind = "OpenParen" ->
                    Parse("parse_function_call", <<tq, indent_level, tok.val, tok.span.start>>)
              [] next.kind = "OpenCurly" ->
                    Parse("parse_object_construction",
                          <<tq, indent_level, tok.val, tok.span.start>>)
              [] next.kind = "Operator" /\ next.val = "Dot" ->
                    Parse("parse_member_access", <<tq, indent_level, tok.val, tok.span.start>>)
              [] next.kind = "Operator" /\ next.val \in {"Increment", "Decrement"} ->
                    Ok(postfix_rewrite(next.val, tok.val, tok.span), pop(tq).tq)
              [] OTHER -> Ok(name_ref(tok.val, tok.span), tq)
      [] tok.kind = "StringLiteral" -> Ok(StringLiteral(tok.span, tok.val), tq)
      [] tok.kind = "Number" -> parse_number(tok.val, tok.span, tq)
      [] tok.kind = "Operator" ->
            Parse("parse_unary_expression", <<tq, indent_level, tok.val, tok.span.start>>)
      [] OTHER -> err(tok.span.start, "UnexpectedToken", tq)

\* parse_expression_next handing an assignment both the operator and a copy of
\* it back before parse_assignment pops one.
parse_expression_next_twice(tq, indent_level, e, tok_pos, next) ==
    CASE next.kind = "Operator" /\ next.val \in {"Increment", "Decrement"} ->
            Ok(pf_unary_op(next.val, e, Span_new(tok_pos, next.span.end)), tq)
      [] next.kind = "Operator" /\ is_assignment(next.val) ->
            Parse("parse_assignment",
                  <<pop(push_front(push_front(tq, next), next)).tq, indent_level, e, next.val,
                    tok_pos>>)
      [] next.kind = "Operator" /\ is_binary_operator(next.val) ->
            Parse("parse_binary_op_rhs", <<push_front(tq, next), indent_level, e>>)
      [] OTHER -> err(tq_pos(tq), "UnexpectedToken", tq)

\* What parse_expression does with the token after a primary expression e.
parse_expression_next(tq, indent_level, e, tok_pos, next) ==
    CASE next.kind = "Operator" /\ next.val \in {"Increment", "Decrement"} ->
            Ok(pf_unary_op(next.val, e, Span_new(tok_pos, next.span.end)), tq)
      [] next.kind = "Operator" /\ is_assignment(next.val) ->
            Parse("parse_assignment", <<push_front(tq, next), indent_level, e, next.val, tok_pos>>)
      [] next.kind = "Operator" /\ is_binary_operator(next.val) ->
            Parse("parse_binary_op_rhs", <<push_front(tq, next), indent_level, e>>)
      [] OTHER -> err(tq_pos(tq), "UnexpectedToken", tq)

\* One round of the while-let loop of parse_expression; lhs is the value the
\* loop holds so far.
parse_expression_loop(tq, indent_level, lhs) ==
    IF is_end_of_expression(peek(tq))
    THEN IF lhs.node # "None" THEN Ok(lhs, tq) ELSE err(tq_pos(tq), "UnexpectedEOF", tq)
    ELSE LET p == pop(tq)
             e == Parse("parse_primary_expression", <<p.tq, indent_level, p.val>>)
         IN  IF ~e.ok THEN e
             ELSE IF is_end_of_expression(peek(e.tq)) THEN Ok(e.val, e.tq)
             ELSE LET n == pop(e.tq)
                      l == parse_expression_next(n.tq, indent_level, e.val,
                                                 p.val.span.start, n.val)
                  IN  IF ~l.ok THEN l
                      ELSE Parse("parse_expression_loop",
                                 <<Round(tq, l.tq), indent_level, l.val>>)

parse_expression(tq, indent_level) == parse_expression_loop(tq, indent_level, None)

(***************************************************************************)
(* The statement parser (statements.rs).                                   *)
(***************************************************************************)
\* Result::map: r with its value replaced by v, the image of r.val.
map(r, v) == IF r.ok THEN Ok(v, r.tq) ELSE r

parse_import(tq, pos) ==
    LET r == expect_string(tq) IN
    IF ~r.ok THEN r ELSE Ok(Import_new(r.val.file, Span_new(pos, r.val.end_pos)), r.tq)

parse_type(tq) ==
    LET r == expect_identifier(tq) IN
    IF ~r.ok THEN r ELSE Ok(Type_Primitive(r.val.span.start, r.val.val), r.tq)

NoType == [type |-> "None"]

parse_optional_type(tq) ==
    IF is_next(tq, "Colon") THEN parse_type(pop(tq).tq) ELSE Ok(NoType, tq)

\* One round of the loop of parse_vars; variables are those pushed so far.
parse_vars(tq, indent_level, constants, public, variables) ==
    IF next_indent(tq) # NoIndent /\ next_indent(tq) <= indent_level
    THEN Ok(variables, tq)
    ELSE LET p == pop(tq)
             tok == p.val
         IN  CASE tok.kind = "Identifier" ->
                    LET type_of_var == parse_optional_type(p.tq) IN
                    IF ~type_of_var.ok THEN type_of_var
                    ELSE LET a == expect_operator_tok(type_of_var.tq, "Assign") IN
                         IF ~a.ok THEN a
                         ELSE LET expr == Parse("parse_expression", <<a.tq, indent_level>>) IN
                              IF ~expr.ok THEN expr
                              ELSE Parse("parse_vars",
                                         <<Round(tq, expr.tq), indent_level, constants, public,
                                           Append(variables,
                                                  Variable_new(tok.val, type_of_var.val,
                                                               constants, public, expr.val,
                                                               Span_new(tok.span.start,
                                                                        tq_pos(expr.tq))))>>)
               [] tok.kind \in {"Comma", "Indent"} ->
                    Parse("parse_vars",
                          <<Round(tq, p.tq), indent_level, constants, public, variables>>)
               [] tok.kind = "EOF" -> Ok(variables, p.tq)
               [] OTHER -> err(tok.span.start, "UnexpectedToken", p.tq)

\* parse_block_loop ending the block at a statement that fails to parse.
parse_block_loop_recovering(tq, indent_level, statements) ==
    IF next_indent(tq) > indent_level
    THEN LET lvl == expect_indent(tq) IN
         IF ~lvl.ok THEN lvl
         ELSE IF is_next(lvl.tq, "EOF") THEN Ok(Block_new(statements), lvl.tq)
         ELSE LET st == Parse("parse_statement", <<lvl.tq, lvl.val>>) IN
              IF ~st.ok THEN Ok(Block_new(statements), st.tq)
              ELSE Parse("parse_block_loop",
                         <<Round(tq, st.tq), indent_level, Append(statements, st.val)>>)
    ELSE Ok(Block_new(statements), tq)

\* One round of the loop of parse_block; statements are those pushed so far.
parse_block_loop(tq, indent_level, statements) ==
    IF next_indent(tq) > indent_level
    THEN LET lvl == expect_indent(tq) IN
         IF ~lvl.ok THEN lvl
         ELSE IF is_next(lvl.tq, "EOF") THEN Ok(Block_new(statements), lvl.tq)
         ELSE LET st == Parse("parse_statement", <<lvl.tq, lvl.val>>) IN
              IF ~st.ok THEN st
              ELSE Parse("parse_block_loop",
                         <<Round(tq, st.tq), indent_level, Append(statements, st.val)>>)
    ELSE Ok(Block_new(statements), tq)

parse_block(tq, indent_level) ==
    IF next_indent(tq) = NoIndent
    THEN LET st == Parse("parse_statement", <<tq, indent_level>>) IN
         IF ~st.ok THEN st
         ELSE Parse("parse_block_loop", <<st.tq, indent_level, <<st.val>> >>)
    ELSE Parse("parse_block_loop", <<tq, indent_level, <<>> >>)

parse_while(tq, indent_level, pos) ==
    LET cond == Parse("parse_expression", <<tq, indent_level>>) IN
    IF ~cond.ok THEN cond
    ELSE LET colon == expect(cond.tq, "Colon") IN
         IF ~colon.ok THEN colon
         ELSE LET block == Parse("parse_block", <<colon.tq, indent_level>>) IN
              IF ~block.ok THEN block
              ELSE Ok(While_new(cond.val, block.val, Span_new(pos, tq_pos(block.tq))), block.tq)

parse_else(tq, indent_level) ==
    IF is_next(tq, "If")
    THEN LET tok == pop(tq)
             i == Parse("parse_if", <<tok.tq, indent_level, tok.val.span.start>>)
         IN  map(i, ElsePart_If(i.val))
    ELSE LET colon == expect(tq, "Colon") IN
         IF ~colon.ok THEN colon
         ELSE LET block == Parse("parse_block", <<colon.tq, indent_level>>) IN
              map(block, ElsePart_Block(block.val))

\* parse_if taking an else at any level up to indent_level.
parse_if_dedented_else(tq, indent_level, pos) ==
    LET cond == Parse("parse_expression", <<tq, indent_level>>) IN
    IF ~cond.ok THEN cond
    ELSE LET colon == expect(cond.tq, "Colon") IN
         IF ~colon.ok THEN colon
         ELSE LET if_block == Parse("parse_block", <<colon.tq, indent_level>>) IN
              IF ~if_block.ok THEN if_block
              ELSE LET q == IF /\ next_indent(if_block.tq) # NoIndent
                               /\ next_indent(if_block.tq) <= indent_level
                            THEN looked_at(if_block.tq, 1)
                            ELSE if_block.tq
                       else_part ==
                           IF /\ next_indent(q) # NoIndent
                              /\ next_indent(q) <= indent_level
                              /\ is_next_at(q, 1, "Else")
                           THEN Parse("parse_else", <<pop(pop(q).tq).tq, indent_level>>)
                           ELSE Ok(ElsePart_Empty, q)
                   IN  IF ~else_part.ok THEN else_part
                       ELSE Ok(If_new(cond.val, if_block.val, else_part.val,
                                      Span_new(pos, tq_pos(else_part.tq))),
                               else_part.tq)

parse_if(tq, indent_level, pos) ==
    LET cond == Parse("parse_expression", <<tq, indent_level>>) IN
    IF ~cond.ok THEN cond
    ELSE LET colon == expect(cond.tq, "Colon") IN
         IF ~colon.ok THEN colon
         ELSE LET if_block == Parse("parse_block", <<colon.tq, indent_level>>) IN
              IF ~if_block.ok THEN if_block
              ELSE LET q == IF next_indent(if_block.tq) = indent_level
                            THEN looked_at(if_block.tq, 1)
                            ELSE if_block.tq
                       else_part ==
                           IF /\ next_indent(q) = indent_level
                              /\ is_next_at(q, 1, "Else")
                           THEN Parse("parse_else", <<pop(pop(q).tq).tq, indent_level>>)
                           ELSE Ok(ElsePart_Empty, q)
                   IN  IF ~else_part.ok THEN else_part
                       ELSE Ok(If_new(cond.val, if_block.val, else_part.val,
                                      Span_new(pos, tq_pos(else_part.tq))),
                               else_part.tq)

parse_return(tq, indent_level, pos) ==
    LET e == Parse("parse_expression", <<tq, indent_level>>) IN
    IF ~e.ok THEN e ELSE Ok(Return_new(e.val, Span_new(pos, tq_pos(e.tq))), e.tq)

\* One argument of parse_func: [const] name [: type].
parse_func_arg(tq, self_type, args) ==
    LET const_arg == is_next(tq, "Const")
        id == expect_identifier(IF const_arg THEN pop(tq).tq ELSE tq)
    IN  IF ~id.ok THEN id
        ELSE LET arg_name == id.val.val
                 arg_pos == id.val.span.start
             IN  IF arg_name = "self"
                 THEN IF args = <<>>
                      THEN Ok(Argument_new(arg_name, self_type, const_arg,
                                           Span_new(arg_pos, arg_pos)), id.tq)
                      ELSE err(arg_pos, "SelfNotAllowed", id.tq)
                 ELSE LET colon == expect(id.tq, "Colon") IN
                      IF ~colon.ok THEN colon
                      ELSE LET typ == parse_type(colon.tq) IN
                           IF ~typ.ok THEN typ
                           ELSE Ok(Argument_new(arg_name, typ.val, const_arg,
                                                Span_new(arg_pos, tq_pos(typ.tq))), typ.tq)

\* One round of the while loop of parse_func; args are those pushed so far.
parse_func_args(tq, self_type, args) ==
    IF is_next(tq, "CloseParen")
    THEN Ok(args, tq)
    ELSE LET arg == parse_func_arg(tq, self_type, args) IN
         IF ~arg.ok THEN arg
         ELSE IF ~is_next(arg.tq, "Comma") THEN Ok(Append(args, arg.val), arg.tq)
         ELSE Parse("parse_func_args",
                    <<Round(tq, expect(arg.tq, "Comma").tq), self_type, Append(args, arg.val)>>)

\* The end of parse_func: [-> type] : block
parse_func_body(tq, indent_level, public, name, args) ==
    LET ret_type == IF is_next_operator(tq, "Arrow") THEN parse_type(pop(tq).tq)
                    ELSE Ok(Type_Void, tq)
    IN  IF ~ret_type.ok THEN ret_type
        ELSE LET colon == expect(ret_type.tq, "Colon") IN
             IF ~colon.ok THEN colon
             ELSE LET block == Parse("parse_block", <<colon.tq, indent_level>>) IN
                  IF ~block.ok THEN block
                  ELSE Ok(Function_new(name.val, ret_type.val, args, public, block.val,
                                       Span_new(name.span.start, tq_pos(block.tq))),
                          block.tq)

parse_func(tq, indent_level, public, self_type) ==
    LET name == expect_identifier(tq) IN
    IF ~name.ok THEN name
    ELSE LET open == expect(name.tq, "OpenParen") IN
         IF ~open.ok THEN open
         ELSE LET args == Parse("parse_func_args", <<open.tq, self_type, <<>> >>) IN
              IF ~args.ok THEN args
              ELSE LET close == expect(args.tq, "CloseParen") IN
                   IF ~close.ok THEN close
                   ELSE parse_func_body(close.tq, indent_level, public, name.val, args.val)

parse_struct_member(s, tq, indent_level, public) ==
    LET p == pop(tq)
        tok == p.val
    IN  CASE tok.kind = "Pub" -> Parse("parse_struct_member", <<s, p.tq, indent_level, TRUE>>)
          [] tok.kind = "Func" ->
                LET f == Parse("parse_func",
                               <<p.tq, indent_level, public, Type_Struct(tok.span.start, s.name)>>)
                IN  IF ~f.ok THEN f ELSE Ok([s EXCEPT !.functions = Append(@, f.val)], f.tq)
          [] tok.kind \in {"Var", "Const"} ->
                LET v == Parse("parse_vars",
                               <<p.tq, indent_level, tok.kind = "Const", public, <<>> >>)
                IN  IF ~v.ok THEN v ELSE Ok([s EXCEPT !.variables = @ \o v.val], v.tq)
          [] tok.kind = "EOF" -> Ok(s, p.tq)
          [] OTHER -> err(tok.span.start, "UnexpectedToken", p.tq)

\* One round of the while-let loop of parse_struct.
parse_struct_members(tq, indent_level, s, pos) ==
    IF next_indent(tq) # NoIndent /\ next_indent(tq) > indent_level
    THEN LET m == Parse("parse_struct_member", <<s, pop(tq).tq, next_indent(tq), FALSE>>) IN
         IF ~m.ok THEN m
         ELSE Parse("parse_struct_members", <<Round(tq, m.tq), indent_level, m.val, pos>>)
    ELSE Ok([s EXCEPT !.span = Span_new(pos, tq_pos(tq))], tq)

parse_struct(tq, indent_level, public, pos) ==
    LET name == expect_identifier(tq) IN
    IF ~name.ok THEN name
    ELSE LET colon == expect(name.tq, "Colon") IN
         IF ~colon.ok THEN colon
         ELSE Parse("parse_struct_members",
                    <<colon.tq, indent_level, Struct_new(name.val.val, public, Span_zero), pos>>)

\* tq.pop_if(|tok| tok.kind == TokenKind::Comma)
eat_comma(tq) == IF is_next(tq, "Comma") THEN pop(tq).tq ELSE tq

\* One round of the while loop of parse_union_case.
parse_union_case_vars(tq, case_vars) ==
    IF is_next(tq, "CloseParen")
    THEN Ok(case_vars, tq)
    ELSE LET name == expect_identifier(tq) IN
         IF ~name.ok THEN name
         ELSE LET colon == expect(name.tq, "Colon") IN
              IF ~colon.ok THEN colon
              ELSE LET typ == parse_type(colon.tq) IN
                   IF ~typ.ok THEN typ
                   ELSE Parse("parse_union_case_vars",
                              <<Round(tq, eat_comma(typ.tq)),
                                Append(case_vars,
                                       Argument_new(name.val.val, typ.val, FALSE,
                                                    Span_new(name.val.span.start,
                                                             tq_pos(typ.tq))))>>)

parse_union_case(tq) ==
    LET name == expect_identifier(tq) IN
    IF ~name.ok THEN name
    ELSE LET case_vars ==
                 IF is_next(name.tq, "OpenParen")
                 THEN LET v == Parse("parse_union_case_vars", <<pop(name.tq).tq, <<>> >>) IN
                      IF ~v.ok THEN v
                      ELSE LET close == expect(v.tq, "CloseParen") IN
                           IF ~close.ok THEN close ELSE Ok(v.val, close.tq)
                 ELSE Ok(<<>>, name.tq)
         IN  IF ~case_vars.ok THEN case_vars
             ELSE LET tq2 == eat_comma(case_vars.tq) IN
                  Ok([UnionCase_new(name.val.val, Span_new(name.val.span.start, tq_pos(tq2)))
                         EXCEPT !.vars = case_vars.val],
                     tq2)

parse_union_member(tq, indent_level, public, ut) ==
    LET p == pop(tq)
        tok == p.val
    IN  CASE tok.kind = "Pub" -> Parse("parse_union_member", <<p.tq, indent_level, TRUE, ut>>)
          [] tok.kind = "Func" -> Parse("parse_func", <<p.tq, indent_level, public, ut>>)
          [] OTHER -> err(tok.span.start, "UnexpectedToken", p.tq)

\* parse_union_loop leaving the indent of a deeper line in the queue.
parse_union_loop_keeps_indent(tq, indent_level, indent, u, name_pos) ==
    LET done == Ok([u EXCEPT !.span = Span_new(name_pos, tq_pos(tq))], tq) IN
    IF next_indent(tq) # NoIndent
    THEN IF next_indent(tq) <= indent_level THEN done
         ELSE Parse("parse_union_loop",
                    <<Round(tq, tq), indent_level, next_indent(tq), u, name_pos>>)
    ELSE IF is_next_identifier(tq)
    THEN LET c == parse_union_case(tq) IN
         IF ~c.ok THEN c
         ELSE Parse("parse_union_loop",
                    <<Round(tq, c.tq), indent_level, indent,
                      [u EXCEPT !.cases = Append(@, c.val)], name_pos>>)
    ELSE IF is_next(tq, "EOF") THEN done
    ELSE LET f == Parse("parse_union_member",
                        <<tq, indent, FALSE, Type_Union(tq_pos(tq), u.name)>>)
         IN  IF ~f.ok THEN f
             ELSE Parse("parse_union_loop",
                        <<Round(tq, f.tq), indent_level, indent,
                          [u EXCEPT !.functions = Append(@, f.val)], name_pos>>)

\* One round of the loop of parse_union.
parse_union_loop(tq, indent_level, indent, u, name_pos) ==
    LET done == Ok([u EXCEPT !.span = Span_new(name_pos, tq_pos(tq))], tq) IN
    IF next_indent(tq) # NoIndent
    THEN IF next_indent(tq) <= indent_level THEN done
         ELSE Parse("parse_union_loop",
                    <<Round(tq, pop(tq).tq), indent_level, next_indent(tq), u, name_pos>>)
    ELSE IF is_next_identifier(tq)
    THEN LET c == parse_union_case(tq) IN
         IF ~c.ok THEN c
         ELSE Parse("parse_union_loop",
                    <<Round(tq, c.tq), indent_level, indent,
                      [u EXCEPT !.cases = Append(@, c.val)], name_pos>>)
    ELSE IF is_next(tq, "EOF") THEN done
    ELSE LET f == Parse("parse_union_member",
                        <<tq, indent, FALSE, Type_Union(tq_pos(tq), u.name)>>)
         IN  IF ~f.ok THEN f
             ELSE Parse("parse_union_loop",
                        <<Round(tq, f.tq), indent_level, indent,
                          [u EXCEPT !.functions = Append(@, f.val)], name_pos>>)

parse_union(tq, indent_level, public) ==
    LET name == expect_identifier(tq) IN
    IF ~name.ok THEN name
    ELSE LET colon == expect(name.tq, "Colon") IN
         IF ~colon.ok THEN colon
         ELSE Parse("parse_union_loop",
                    <<colon.tq, indent_level, indent_level,
                      Union_new(name.val.val, public, Span_zero), name.val.span.start>>)

\* One round of the while loop of parse_match_case.
parse_match_bindings(tq, bindings) ==
    IF is_next(tq, "CloseParen")
    THEN Ok(bindings, tq)
    ELSE LET name == expect_identifier(tq) IN
         IF ~name.ok THEN name
         ELSE Parse("parse_match_bindings",
                    <<Round(tq, eat_comma(name.tq)), Append(bindings, name.val.val)>>)

parse_match_case(tq, indent_level) ==
    LET name == expect_identifier(tq) IN
    IF ~name.ok THEN name
    ELSE LET bindings ==
                 IF is_next(name.tq, "OpenParen")
                 THEN LET b == Parse("parse_match_bindings", <<pop(name.tq).tq, <<>> >>) IN
                      IF ~b.ok THEN b
                      ELSE LET close == expect(b.tq, "CloseParen") IN
                           IF ~close.ok THEN close ELSE Ok(b.val, close.tq)
                 ELSE Ok(<<>>, name.tq)
         IN  IF ~bindings.ok THEN bindings
             ELSE LET colon == expect(bindings.tq, "Colon") IN
                  IF ~colon.ok THEN colon
                  ELSE LET block == Parse("parse_block", <<colon.tq, indent_level>>) IN
                       IF ~block.ok THEN block
                       ELSE Ok(MatchCase_new(name.val.val, bindings.val, block.val,
                                             Span_new(name.val.span.start, tq_pos(block.tq))),
                               block.tq)

\* One round of the while-let loop of parse_match.
parse_match_cases(tq, indent_level, m, pos) ==
    LET done(q) == Ok([m EXCEPT !.span = Span_new(pos, tq_pos(q))], q) IN
    IF next_indent(tq) # NoIndent /\ next_indent(tq) > indent_level
    THEN LET q == pop(tq).tq IN
         IF is_next(q, "EOF") THEN done(q)
         ELSE LET c == parse_match_case(q, next_indent(tq)) IN
              IF ~c.ok THEN c
              ELSE Parse("parse_match_cases",
                         <<Round(tq, c.tq), indent_level,
                           [m EXCEPT !.cases = Append(@, c.val)], pos>>)
    ELSE done(tq)

parse_match(tq, indent_level, pos) ==
    LET expr == Parse("parse_expression", <<tq, indent_level>>) IN
    IF ~expr.ok THEN expr
    ELSE LET colon == expect(expr.tq, "Colon") IN
         IF ~colon.ok THEN colon
         ELSE Parse("parse_match_cases",
                    <<colon.tq, indent_level, Match_new(expr.val, Span_zero), pos>>)

\* The arm TokenKind::Pub of parse_statement.
parse_statement_pub(tq, indent_level, tok) ==
    LET n == pop(tq)
        next == n.val
    IN  CASE next.kind = "Var" ->
                LET v == Parse("parse_vars", <<n.tq, indent_level, FALSE, TRUE, <<>> >>) IN
                map(v, Statement_Variable(v.val))
          [] next.kind = "Const" ->
                LET v == Parse("parse_vars", <<n.tq, indent_level, TRUE, TRUE, <<>> >>) IN
                map(v, Statement_Variable(v.val))
          [] next.kind = "Func" -> Parse("parse_func", <<n.tq, indent_level, TRUE, Type_Void>>)
          [] next.kind = "Struct" ->
                Parse("parse_struct", <<n.tq, indent_level, TRUE, next.span.start>>)
          [] next.kind = "Union" -> Parse("parse_union", <<n.tq, indent_level, TRUE>>)
          [] OTHER -> err(tok.span.start, "UnexpectedToken", n.tq)

parse_statement(tq, indent_level) ==
    LET p == pop(tq)
        tok == p.val
    IN  CASE tok.kind = "Import" -> parse_import(p.tq, tok.span.start)
          [] tok.kind = "Var" ->
                LET v == Parse("parse_vars", <<p.tq, indent_level, FALSE, FALSE, <<>> >>) IN
                map(v, Statement_Variable(v.val))
          [] tok.kind = "Const" ->
                LET v == Parse("parse_vars", <<p.tq, indent_level, TRUE, FALSE, <<>> >>) IN
                map(v, Statement_Variable(v.val))
          [] tok.kind = "Func" -> Parse("parse_func", <<p.tq, indent_level, FALSE, Type_Void>>)
          [] tok.kind = "Struct" ->
                Parse("parse_struct", <<p.tq, indent_level, FALSE, tok.span.start>>)
          [] tok.kind = "Union" -> Parse("parse_union", <<p.tq, indent_level, FALSE>>)
          [] tok.kind = "While" -> Parse("parse_while", <<p.tq, indent_level, tok.span.start>>)
          [] tok.kind = "If" -> Parse("parse_if", <<p.tq, indent_level, tok.span.start>>)
          [] tok.kind = "Return" -> parse_return(p.tq, indent_level, tok.span.start)
          [] tok.kind = "Match" -> Parse("parse_match", <<p.tq, indent_level, tok.span.start>>)
          [] tok.kind = "Identifier" ->
                LET e == Parse("parse_expression", <<push_front(p.tq, tok), indent_level>>) IN
                map(e, Statement_Expression(e.val))
          [] tok.kind = "Pub" -> parse_statement_pub(p.tq, indent_level, tok)
          [] OTHER -> err(tok.span.start, "UnexpectedToken", p.tq)

\* The functions that are one round of a loop; their first argument is the queue.
Loops ==
    {"parse_expression_loop", "parse_binary_op_rhs", "parse_arguments", "parse_vars",
     "parse_block_loop", "parse_func_args", "parse_struct_members", "parse_union_case_vars",
     "parse_union_loop", "parse_match_bindings", "parse_match_cases"}

\* A loop that has stalled would go round for ever; it is cut off there.
Parse(fn, a) ==
    IF fn \in Loops /\ a[1].stalled THEN err(tq_pos(a[1]), "Stalled", a[1])
    ELSE CASE fn = "parse_expression" -> parse_expression(a[1], a[2])
           [] fn = "parse_expression_loop" -> parse_expression_loop(a[1], a[2], a[3])
           [] fn = "parse_primary_expression" -> parse_primary_expression(a[1], a[2], a[3])
           [] fn = "parse_unary_expression" -> parse_unary_expression(a[1], a[2], a[3], a[4])
           [] fn = "parse_binary_op_rhs" -> parse_binary_op_rhs(a[1], a[2], a[3])
           [] fn = "parse_arguments" -> parse_arguments(a[1], a[2], a[3], a[4])
           [] fn = "parse_function_call" -> parse_function_call(a[1], a[2], a[3], a[4])
           [] fn = "parse_assignment" -> parse_assignment(a[1], a[2], a[3], a[4], a[5])
           [] fn = "parse_object_construction" -> parse_object_construction(a[1], a[2], a[3], a[4])
           [] fn = "parse_member_access" -> parse_member_access(a[1], a[2], a[3], a[4])
           [] fn = "parse_vars" -> parse_vars(a[1], a[2], a[3], a[4], a[5])
           [] fn = "parse_block" -> parse_block(a[1], a[2])
           [] fn = "parse_block_loop" -> parse_block_loop(a[1], a[2], a[3])
           [] fn = "parse_while" -> parse_while(a[1], a[2], a[3])
           [] fn = "parse_else" -> parse_else(a[1], a[2])
           [] fn = "parse_if" -> parse_if(a[1], a[2], a[3])
           [] fn = "parse_statement" -> parse_statement(a[1], a[2])
           [] fn = "parse_func_args" -> parse_func_args(a[1], a[2], a[3])
           [] fn = "parse_func" -> parse_func(a[1], a[2], a[3], a[4])
           [] fn = "parse_struct_member" -> parse_struct_member(a[1], a[2], a[3], a[4])
           [] fn = "parse_struct_members" -> parse_struct_members(a[1], a[2], a[3], a[4])
           [] fn = "parse_struct" -> parse_struct(a[1], a[2], a[3], a[4])
           [] fn = "parse_union_case_vars" -> parse_union_case_vars(a[1], a[2])
           [] fn = "parse_union_member" -> parse_union_member(a[1], a[2], a[3], a[4])
           [] fn = "parse_union_loop" -> parse_union_loop(a[1], a[2], a[3], a[4], a[5])
           [] fn = "parse_union" -> parse_union(a[1], a[2], a[3])
           [] fn = "parse_match_bindings" -> parse_match_bindings(a[1], a[2])
           [] fn = "parse_match_cases" -> parse_match_cases(a[1], a[2], a[3], a[4])
           [] fn = "parse_match" -> parse_match(a[1], a[2], a[3])

\* The test harness th_expr: the lexer's queue, the leading indent, one expression.
th_expr(toks) ==
    LET tq == TokenQueue_new(toks)
        lvl == expect_indent(tq)
    IN  IF ~lvl.ok THEN lvl ELSE Parse("parse_expression", <<lvl.tq, lvl.val>>)

\* The two parse modes.
ParseModes == {"Block", "Module"}

\* parse_module on the lexer's queue.  The mode is handed on to parse_block,
\* whose definition takes the queue and the indent level only.
parse_module(toks, mode) ==
    LET block == Parse("parse_block", <<TokenQueue_new(toks), 0>>) IN
    map(block, Module_new(block.val))

\* The test harness th_statement: the leading indent, then one statement.
th_statement(toks) ==
    LET tq == TokenQueue_new(toks)
        lvl == expect_indent(tq)
    IN  IF ~lvl.ok THEN lvl ELSE Parse("parse_statement", <<lvl.tq, lvl.val>>)

(***************************************************************************)
(* The state machine.  The lexer appends tokens to the stream (pc = "lex") *)
(* and a parser entry point then consumes the whole stream (pc = "done");  *)
(* entry names the entry point that ran and parse_mode the ParseMode it    *)
(* passed on.  prog is the input of code generation and cg its outcome.    *)
(***************************************************************************)
NoResult == [ok |-> FALSE, error |-> [kind |-> "NotRun", pos |-> 0, npop |-> 0],
             tq |-> [tokens |-> <<>>, last_pos |-> 0, npop |-> 0, errors |-> <<>>,
                     lookahead |-> 0, pushed |-> 0, rewind |-> 0, rounds |-> 0,
                     stalled |-> FALSE]]

Init ==
    /\ tokens = <<>>
    /\ pc = "lex"
    /\ result = NoResult
    /\ entry = "none"
    /\ parse_mode = "none"
    /\ prog = [kind |-> "none"]
    /\ cg = [entry |-> "none"]

Last(s) == s[Len(s)]

LastKind == IF tokens = <<>> THEN "None" ELSE Last(tokens).kind

CountKind(kind) == Cardinality({i \in 1..Len(tokens) : tokens[i].kind = kind})

LexToken(kind, val, level) ==
    /\ pc = "lex"
    /\ tokens' = Lex(tokens, kind, val, level)
    /\ UNCHANGED <<pc, result, entry, parse_mode, prog, cg>>

\* th_expr on the stream lexed so far.
ParseExpression ==
    /\ pc = "lex"
    /\ tokens # <<>>
    /\ pc' = "done"
    /\ entry' = "th_expr"
    /\ result' = th_expr(tokens)
    /\ UNCHANGED <<tokens, parse_mode, prog, cg>>

\* th_statement on the stream lexed so far.
ParseStatement ==
    /\ pc = "lex"
    /\ tokens # <<>>
    /\ pc' = "done"
    /\ entry' = "th_statement"
    /\ parse_mode' = "Block"
    /\ result' = th_statement(tokens)
    /\ UNCHANGED <<tokens, prog, cg>>

\* parse_module on the stream lexed so far.
ParseModule ==
    /\ pc = "lex"
    /\ tokens # <<>>
    /\ pc' = "done"
    /\ entry' = "parse_module"
    /\ \E mode \in ParseModes : parse_mode' = mode /\ result' = parse_module(tokens, mode)
    /\ UNCHANGED <<tokens, prog, cg>>

(***************************************************************************)
(* SpecChain: the source text is a chain of identifiers joined by binary   *)
(* operators, a op b op c ..., with at most MaxOps operators.              *)
(***************************************************************************)
BinaryOperators == {op \in Operator : is_binary_operator(op)}

ChainIndent == tokens = <<>> /\ LexToken("Indent", "", 0)

\* The identifiers of the source text are a, b, c, ... in order.
Names == <<"a", "b", "c", "d", "e", "f", "g", "h">>

NextName == Names[(CountKind("Identifier") % Len(Names)) + 1]

ChainOperand == LastKind \in {"Indent", "Operator"} /\ LexToken("Identifier", NextName, 0)

ChainOperator ==
    /\ LastKind = "Identifier"
    /\ CountKind("Operator") < MaxOps
    /\ \E op \in BinaryOperators : LexToken("Operator", op, 0)

ChainParse == LastKind = "Identifier" /\ ParseExpression

NextChain == ChainIndent \/ ChainOperand \/ ChainOperator \/ ChainParse

SpecChain == Init /\ [][NextChain]_vars

\* The operators of the source text, in order.
OperatorsOf(toks) == SelectSeq(toks, LAMBDA t : t.kind = "Operator")

RECURSIVE Children(_)
Children(e) ==
    CASE e.node \in {"BinaryOp", "Assignment"} -> <<e.left, e.right>>
      [] e.node \in {"UnaryOp", "PostFixUnaryOp", "Enclosed"} -> <<e.expression>>
      [] e.node \in {"Call", "ObjectConstruction"} -> e.args
      [] e.node = "MemberAccess" -> <<e.member>>
      [] OTHER -> <<>>

\* No BinaryOp node of e has a BinaryOp of the same precedence as its right child.
RECURSIVE LeftLeaning(_)
LeftLeaning(e) ==
    /\ e.node = "BinaryOp" /\ e.right.node = "BinaryOp"
          => precedence(e.right.operator) # precedence(e.operator)
    /\ \A i \in 1..Len(Children(e)) : LeftLeaning(Children(e)[i])

\* No BinaryOp node of e has a BinaryOp child of strictly lower precedence.
RECURSIVE RespectsPrecedence(_)
RespectsPrecedence(e) ==
    /\ e.node = "BinaryOp"
          => /\ e.left.node = "BinaryOp" => precedence(e.left.operator) >= precedence(e.operator)
             /\ e.right.node = "BinaryOp" => precedence(e.right.operator) >= precedence(e.operator)
    /\ \A i \in 1..Len(Children(e)) : RespectsPrecedence(Children(e)[i])

EqualPrecedenceChain ==
    LET ops == OperatorsOf(tokens) IN
    /\ Len(ops) >= 2
    /\ \A i \in 1..Len(ops) : precedence(ops[i].val) = precedence(ops[1].val)

\* C1: a chain of two or more binary operators of equal precedence parses to a
\* left-leaning tree: no BinaryOp node has a BinaryOp of the same precedence as
\* its direct right child.
C1_LeftAssociative ==
    pc = "done" /\ EqualPrecedenceChain => result.ok /\ LeftLeaning(result.val)

\* C2: a chain of binary operators parses to a tree that respects the precedence
\* table: no BinaryOp node has a direct BinaryOp child of strictly lower
\* precedence.
C2_Precedence ==
    pc = "done" /\ Len(OperatorsOf(tokens)) >= 1 => result.ok /\ RespectsPrecedence(result.val)

(***************************************************************************)
(* SpecExpr: the source text is one line of at most MaxLen tokens drawn    *)
(* from identifiers, operators, parentheses and commas.                    *)
(***************************************************************************)
ExprOperators == {"Sub", "Mul", "Not", "Assign", "Increment", "Dot"}

ExprRoom == tokens # <<>> /\ Len(tokens) <= MaxLen

ExprIndent == tokens = <<>> /\ LexToken("Indent", "", 0)

ExprIdentifier == ExprRoom /\ LexToken("Identifier", NextName, 0)

ExprOperator == ExprRoom /\ \E op \in ExprOperators : LexToken("Operator", op, 0)

ExprPunctuation ==
    ExprRoom /\ \E kind \in {"OpenParen", "CloseParen", "Comma"} : LexToken(kind, "", 0)

ExprParse == tokens # <<>> /\ ParseExpression

NextExpr == ExprIndent \/ ExprIdentifier \/ ExprOperator \/ ExprPunctuation \/ ExprParse

SpecExpr == Init /\ [][NextExpr]_vars

IsOperatorToken(t, ops) == t.kind = "Operator" /\ t.val \in ops

PrefixOperators == {"Not", "Sub", "Increment", "Decrement"}

\* e holds the UnaryOp built for the operator at op_pos, applied to just the
\* name reference lexed as id_tok.
RECURSIVE UnaryAppliesTo(_, _, _)
UnaryAppliesTo(e, op_pos, id_tok) ==
    \/ /\ e.node = "UnaryOp"
       /\ e.span.start = op_pos
       /\ e.expression.node = "NameRef"
       /\ e.expression.span = id_tok.span
    \/ \E i \in 1..Len(Children(e)) : UnaryAppliesTo(Children(e)[i], op_pos, id_tok)

PrefixOperandBinary ==
    /\ Len(tokens) >= 5
    /\ IsOperatorToken(tokens[2], PrefixOperators)
    /\ tokens[3].kind = "Identifier"
    /\ IsOperatorToken(tokens[4], BinaryOperators)

\* C3: unary operators bind tightest: in `op a binop ...` the prefix operator
\* applies to the operand a only (!a && b is BinOp(&&, UnaryOp(!, a), b)).
C3_UnaryBindsTightest ==
    pc = "done" /\ PrefixOperandBinary /\ result.ok
        => UnaryAppliesTo(result.val, tokens[2].span.start, tokens[3])

Contains(outer, inner) == outer.start <= inner.start /\ inner.end <= outer.end

\* Every node's span contains the span of each of its children.
RECURSIVE SpanCoverage(_)
SpanCoverage(e) ==
    \A i \in 1..Len(Children(e)) :
        /\ Contains(e.span, Children(e)[i].span)
        /\ SpanCoverage(Children(e)[i])

\* C4: the span of every expression node the parser builds contains the span
\* of each of its children.
C4_SpanCoverage == pc = "done" /\ result.ok => SpanCoverage(result.val)

\* A tree whose root is a BinaryOp built by the rotation.
C4_Witness ==
    /\ pc = "done"
    /\ result.ok
    /\ result.val.node = "BinaryOp"
    /\ result.val.left.node = "BinaryOp"
    /\ SpanCoverage(result.val)

\* No BinaryOp node of e has an Assignment as a direct operand.
RECURSIVE NoAssignmentOperand(_)
NoAssignmentOperand(e) ==
    /\ e.node = "BinaryOp" => e.left.node # "Assignment" /\ e.right.node # "Assignment"
    /\ \A i \in 1..Len(Children(e)) : NoAssignmentOperand(Children(e)[i])

\* The source text is identifiers joined by binary and assignment operators,
\* with an assignment operator among them.
AssignmentChain ==
    /\ Len(tokens) >= 4
    /\ \A i \in 2..Len(tokens) :
          IF i % 2 = 0
          THEN tokens[i].kind = "Identifier"
          ELSE IsOperatorToken(tokens[i], BinaryOperators \cup AssignmentOperators)
    /\ Len(tokens) % 2 = 0
    /\ \E i \in 2..Len(tokens) : IsOperatorToken(tokens[i], AssignmentOperators)

\* C5: assignment binds looser than every binary operator and is
\* right-associative: the root of the tree is the assignment, and no assignment
\* is an operand of a binary operator.
C5_AssignmentLoosest ==
    pc = "done" /\ AssignmentChain
        => /\ result.ok
           /\ result.val.node = "Assignment"
           /\ NoAssignmentOperand(result.val)

\* e holds the node x += 1 (x -= 1) built from the identifier token id_tok.
RECURSIVE HasRewrite(_, _, _)
HasRewrite(e, id_tok, op) ==
    \/ /\ e.node = "Assignment"
       /\ e.operator = (IF op = "Increment" THEN "AddAssign" ELSE "SubAssign")
       /\ e.left = name_ref(id_tok.val, id_tok.span)
       /\ e.right.node = "IntLiteral"
       /\ e.right.v = <<"1">>
    \/ \E i \in 1..Len(Children(e)) : HasRewrite(Children(e)[i], id_tok, op)

PostfixAtStart ==
    /\ Len(tokens) >= 3
    /\ tokens[2].kind = "Identifier"
    /\ IsOperatorToken(tokens[3], {"Increment", "Decrement"})

PrefixAtStart ==
    /\ Len(tokens) >= 3
    /\ IsOperatorToken(tokens[2], {"Increment", "Decrement"})

Indents == {0, 4, 8}

LineTemplates ==
    { <<>>,
      <<"Identifier">>,
      <<"Identifier", "Operator">>,
      <<"Return", "Identifier">>,
      <<"While", "Identifier", "Colon">>,
      <<"While", "Identifier", "Colon", "Identifier">>,
      <<"If", "Identifier", "Colon">>,
      <<"If", "Identifier", "Colon", "Identifier">>,
      <<"Else", "Colon">>,
      <<"Else", "Colon", "Identifier">>,
      <<"Else", "If", "Identifier", "Colon">> }

\* The lexer appends the tokens of the given kinds; identifiers are named in
\* order and the operator is `-`.
RECURSIVE LexKinds(_, _)
LexKinds(toks, kinds) ==
    IF kinds = <<>> THEN toks
    ELSE LET n == Cardinality({i \in 1..Len(toks) : toks[i].kind = "Identifier"})
             val == CASE Head(kinds) = "Identifier" -> Names[(n % Len(Names)) + 1]
                      [] Head(kinds) = "Operator" -> "Sub"
                      [] OTHER -> ""
         IN  LexKinds(Lex(toks, Head(kinds), val, 0), Tail(kinds))

StmtLine ==
    /\ pc = "lex"
    /\ CountKind("Indent") < MaxLines
    /\ LastKind # "Indent"
    /\ \E level \in Indents, kinds \in LineTemplates :
          tokens' = LexKinds(Lex(tokens, "Indent", "", level), kinds)
    /\ UNCHANGED <<pc, result, entry, parse_mode, prog, cg>>

NextStmt == StmtLine \/ ParseStatement \/ ParseModule

SpecStmt == Init /\ [][NextStmt]_vars

\* The queue the lexer hands over, from its j-th token on.
QueueFrom(j) == SubSeq(TokenQueue_new(tokens).tokens, j, Len(tokens) + 1)

\* The first indent token after the first line whose level is at most L, or
\* the EOF when there is none.
BlockEnd(L) ==
    LET ends == {j \in 2..Len(tokens) : tokens[j].kind = "Indent" /\ tokens[j].level <= L} IN
    IF ends = {} THEN Len(tokens) + 1 ELSE CHOOSE j \in ends : \A k \in ends : j <= k

\* The text starts with `kw a :` and th_statement parsed it.
StatementParsed(kw) ==
    /\ pc = "done"
    /\ entry = "th_statement"
    /\ result.ok
    /\ Len(tokens) >= 4
    /\ tokens[2].kind = kw

SameLineBlock == Len(tokens) >= 5 /\ tokens[5].kind # "Indent"

\* Every non-blank line between the tokens i and j starts within one of the
\* statements.
LinesWithin(statements, i, j) ==
    \A n \in i..(j - 1) :
        tokens[n].kind = "Indent" /\ n < Len(tokens) /\ tokens[n + 1].kind # "Indent"
            => \E k \in 1..Len(statements) : Contains(statements[k].span, tokens[n + 1].span)

\* C8: the parser is fail-fast: once a parser function has raised an error, no
\* further token is consumed and no further error is raised, and the entry
\* point (th_statement, parse_module) returns that error, not a node.
C8_FailFast ==
    pc = "done" /\ entry \in {"th_statement", "parse_module"} /\ result.tq.errors # <<>>
        => /\ ~result.ok
           /\ result.tq.errors = <<result.error>>
           /\ result.tq.npop = result.error.npop

\* An error raised inside a nested block, after earlier statements parsed.
C8_Witness ==
    /\ pc = "done"
    /\ entry = "parse_module"
    /\ ~result.ok
    /\ result.tq.errors = <<result.error>>
    /\ result.error.npop >= 6

\* C9: the block of `while a :` at level L is the statements after the ':'
\* with indent greater than L, up to the first indent token of level <= L,
\* which stays in the queue; a statement on the line of the ':' is the whole
\* block.
C9_BlockExtent ==
    StatementParsed("While") =>
        LET L == tokens[1].level
            body == result.val.block.statements
        IN  IF SameLineBlock
            THEN Len(body) = 1 /\ body[1].span = tokens[5].span
            ELSE /\ result.tq.tokens = QueueFrom(BlockEnd(L))
                 /\ LinesWithin(body, 5, BlockEnd(L))

\* C10: the If parsed from `if a : ...` at level L has an else part iff the
\* first indent token of level <= L has level L and `else` follows it
\* (`else if` a nested If, `else :` a Block); otherwise the If has
\* ElsePart::Empty and that indent token is the next token of the queue.
C10_ElseAttachment ==
    StatementParsed("If") =>
        LET L == tokens[1].level
            j == BlockEnd(L)
            else_follows == /\ j < Len(tokens)
                            /\ tokens[j].level = L
                            /\ tokens[j + 1].kind = "Else"
            else_part == result.val.else_part
        IN  IF else_follows
            THEN IF tokens[j + 2].kind = "If"
                 THEN else_part.node = "ElseIf" /\ else_part.stmt.node = "If"
                 ELSE else_part.node = "ElseBlock" /\ else_part.block.node = "Block"
            ELSE else_part = ElsePart_Empty /\ result.tq.tokens = QueueFrom(j)

C10_Witness ==
    /\ StatementParsed("If")
    /\ result.val.else_part.node = "ElseIf"
    /\ result.val.else_part.stmt.else_part.node = "ElseBlock"

(***************************************************************************)
(* SpecNumber: the source text is one number literal.  The lexer matches   *)
(* [0-9]+(\.[0-9]+)?([eE][+-]?[0-9]+)? one character at a time and keeps   *)
(* the lexeme verbatim, at most MaxLexeme characters.                      *)
(***************************************************************************)
LexDigits == {"0", "1", "9"}

Lexeme == IF LastKind = "Number" THEN Last(tokens).val ELSE <<>>

HasExponent(s) == contains(s, "e") \/ contains(s, "E")

\* The lexer extends the number it is scanning by one character.
LexNumberChar(c) ==
    /\ pc = "lex"
    /\ Len(Lexeme) < MaxLexeme
    /\ tokens' = IF LastKind = "Number"
                 THEN [tokens EXCEPT ![Len(tokens)].val = Append(@, c)]
                 ELSE Lex(tokens, "Number", <<c>>, 0)
    /\ UNCHANGED <<pc, result, entry, parse_mode, prog, cg>>

NumIndent == tokens = <<>> /\ LexToken("Indent", "", 0)

NumDigit == tokens # <<>> /\ \E d \in LexDigits : LexNumberChar(d)

NumDot == Lexeme # <<>> /\ AllDigits(Lexeme) /\ LexNumberChar(".")

NumExponent ==
    /\ Lexeme # <<>>
    /\ Last(Lexeme) \in Digits
    /\ ~HasExponent(Lexeme)
    /\ \E c \in {"e", "E"} : LexNumberChar(c)

NumSign ==
    /\ Lexeme # <<>>
    /\ Last(Lexeme) \in {"e", "E"}
    /\ \E c \in {"+", "-"} : LexNumberChar(c)

NumParse == Lexeme # <<>> /\ Last(Lexeme) \in Digits /\ ParseExpression

NextNumber == NumIndent \/ NumDigit \/ NumDot \/ NumExponent \/ NumSign \/ NumParse

SpecNumber == Init /\ [][NextNumber]_vars

\* C7: a number lexeme yields FloatLiteral(lexeme) iff it has a '.' or an
\* exponent marker and is a valid float, IntLiteral(value) iff it has neither
\* and is a valid u64, and otherwise fails with InvalidFloatingPoint (float
\* form) or InvalidInteger (integer form) at the start of the literal.
C7_NumberClassification ==
    pc = "done" =>
        LET num == tokens[2].val
            start == tokens[2].span.start
            float_form == contains(num, ".") \/ HasExponent(num)
        IN  /\ float_form /\ parse_f64_ok(num)
                => result.ok /\ result.val.node = "FloatLiteral" /\ result.val.v = num
            /\ ~float_form /\ parse_u64_ok(num)
                => result.ok /\ result.val.node = "IntLiteral" /\ result.val.v = parse_u64(num)
            /\ float_form /\ ~parse_f64_ok(num)
                => ~result.ok /\ result.error.kind = "InvalidFloatingPoint"
                              /\ result.error.pos = start
            /\ ~float_form /\ ~parse_u64_ok(num)
                => ~result.ok /\ result.error.kind = "InvalidInteger"
                              /\ result.error.pos = start

(***************************************************************************)
(* SpecFunc: the source text is one function declaration                   *)
(*     [pub] func f ( args ) : b                                           *)
(* at the top level, or as the one member of `struct S :` or `union U :`.  *)
(* An argument is [const] name [: int] with name self, x or y; there are   *)
(* at most MaxArgs arguments.                                              *)
(***************************************************************************)
\* The lexer appends the tokens items[1], items[2], ...
RECURSIVE LexAll(_, _)
LexAll(toks, items) ==
    IF items = <<>> THEN toks
    ELSE LexAll(Lex(toks, Head(items).kind, Head(items).val, Head(items).level), Tail(items))

Item(kind, val) == [kind |-> kind, val |-> val, level |-> 0]

IndentItem(level) == [kind |-> "Indent", val |-> "", level |-> level]

OwnerLine(owner) ==
    CASE owner = "struct" ->
            <<IndentItem(0), Item("Struct", ""), Item("Identifier", "S"), Item("Colon", ""),
              IndentItem(4)>>
      [] owner = "union" ->
            <<IndentItem(0), Item("Union", ""), Item("Identifier", "U"), Item("Colon", ""),
              IndentItem(4)>>
      [] OTHER -> <<IndentItem(0)>>

FuncHeader ==
    /\ pc = "lex"
    /\ tokens = <<>>
    /\ \E owner \in {"none", "struct", "union"}, public \in BOOLEAN :
          tokens' = LexAll(<<>>,
                           OwnerLine(owner)
                               \o (IF public THEN <<Item("Pub", "")>> ELSE <<>>)
                               \o <<Item("Func", ""), Item("Identifier", "f"),
                                    Item("OpenParen", "")>>)
    /\ UNCHANGED <<pc, result, entry, parse_mode, prog, cg>>

ArgNames == {"self", "x", "y"}

FuncArg ==
    /\ pc = "lex"
    /\ tokens # <<>>
    /\ CountKind("CloseParen") = 0
    /\ CountKind("Comma") + (IF LastKind = "OpenParen" THEN 0 ELSE 1) < MaxArgs
    /\ \E name \in ArgNames, const_arg \in BOOLEAN, typed \in BOOLEAN :
          tokens' = LexAll(tokens,
                           (IF LastKind = "OpenParen" THEN <<>> ELSE <<Item("Comma", "")>>)
                               \o (IF const_arg THEN <<Item("Const", "")>> ELSE <<>>)
                               \o <<Item("Identifier", name)>>
                               \o (IF typed THEN <<Item("Colon", ""), Item("Identifier", "int")>>
                                   ELSE <<>>))
    /\ UNCHANGED <<pc, result, entry, parse_mode, prog, cg>>

FuncClose ==
    /\ pc = "lex"
    /\ tokens # <<>>
    /\ CountKind("CloseParen") = 0
    /\ tokens' = LexAll(tokens, <<Item("CloseParen", ""), Item("Colon", ""),
                                  Item("Identifier", "b")>>)
    /\ UNCHANGED <<pc, result, entry, parse_mode, prog, cg>>

FuncParse == CountKind("CloseParen") = 1 /\ ParseStatement

NextFunc == FuncHeader \/ FuncArg \/ FuncClose \/ FuncParse

SpecFunc == Init /\ [][NextFunc]_vars

\* The owner of the declaration in the text: "struct", "union" or "none".
Owner ==
    CASE tokens[2].kind = "Struct" -> "struct"
      [] tokens[2].kind = "Union" -> "union"
      [] OTHER -> "none"

\* The indices of the argument names of the text, in order.
ArgNameIndices ==
    {i \in 2..Len(tokens) :
        /\ tokens[i].kind = "Identifier"
        /\ \/ tokens[i - 1].kind \in {"OpenParen", "Comma"}
           \/ tokens[i - 1].kind = "Const"}

IsFirstArg(i) == \A j \in ArgNameIndices : i <= j

IsTyped(i) == tokens[i + 1].kind = "Colon"

\* The argument at i is written as parse_func wants it.
WellFormedArg(i) ==
    IF tokens[i].val = "self" THEN IsFirstArg(i) /\ ~IsTyped(i) ELSE IsTyped(i)

LaterSelf == {i \in ArgNameIndices : tokens[i].val = "self" /\ ~IsFirstArg(i)}

FirstIsSelf == \E i \in ArgNameIndices : IsFirstArg(i) /\ tokens[i].val = "self"

\* The Function the parser returned for the declaration.
ParsedFunction ==
    CASE result.val.node = "Function" -> result.val
      [] OTHER -> result.val.functions[1]

FuncParsed == pc = "done" /\ entry = "th_statement"

\* C11: self is legal only as the first argument of a struct/union method,
\* where it needs no type and gets the type of the owner; a later argument
\* named self makes parse_func fail with SelfNotAllowed at that argument, and
\* a function outside a struct/union with an argument self is no Function.
C11_SelfArgument ==
    FuncParsed =>
        /\ \A i \in LaterSelf :
              /\ ~result.ok
              /\ (\A j \in ArgNameIndices : j < i => WellFormedArg(j))
                    => /\ result.error.kind = "SelfNotAllowed"
                       /\ result.error.pos = tokens[i].span.start
        /\ Owner # "none" /\ (\A i \in ArgNameIndices : WellFormedArg(i)) /\ FirstIsSelf
              => /\ result.ok
                 /\ ParsedFunction.args[1].name = "self"
                 /\ ParsedFunction.args[1].typ.type = (IF Owner = "struct" THEN "Struct" ELSE "Union")
                 /\ ParsedFunction.args[1].typ.name = tokens[3].val
        /\ Owner = "none" /\ FirstIsSelf => ~result.ok

\* C12: the argument names of a Function the parser returns are pairwise
\* distinct.
C12_UniqueArgumentNames ==
    FuncParsed /\ result.ok =>
        LET args == ParsedFunction.args IN
        \A i, j \in 1..Len(args) : args[i].name = args[j].name => i = j

\* Owner::method for the names of the text.
Mangled(owner, method) ==
    CASE owner = "S" /\ method = "f" -> "S::f"
      [] owner = "U" /\ method = "f" -> "U::f"

\* C13: a method parsed inside struct or union Owner is named Owner::method;
\* a function outside keeps its plain name.
C13_MethodNameMangled ==
    FuncParsed /\ result.ok =>
        IF Owner = "none"
        THEN ParsedFunction.name = "f"
        ELSE ParsedFunction.name = Mangled(result.val.name, "f")

(***************************************************************************)
(* Parse modes, under SpecStmt.                                            *)
(***************************************************************************)
\* The nodes of the statements that are not top-level ones: while, if,
\* return, match and an expression statement.
NotToplevel == {"While", "If", "Return", "Match", "Expression"}

\* C14: parse_module in ParseMode::Module returns no Module whose top level
\* holds a while, if, return, match or expression statement (such a text is
\* rejected with an error), and in ParseMode::Block a text of one indented
\* line that parses as a statement of any kind is accepted with that
\* statement as its top level.
C14_ParseModeModule ==
    pc = "done" /\ entry = "parse_module" =>
        /\ parse_mode = "Module" /\ result.ok
              => \A k \in 1..Len(result.val.block.statements) :
                    result.val.block.statements[k].node \notin NotToplevel
        /\ parse_mode = "Block"
              /\ CountKind("Indent") = 1
              /\ tokens[1].level > 0
              /\ th_statement(tokens).ok
              => result.ok /\ result.val.block.statements = <<th_statement(tokens).val>>

(***************************************************************************)
(* Code generation (codegen/, llvmbackend/).  Its input is the AST of the  *)
(* parser: the signature f.sig of a Function is its fields name, args and  *)
(* return_type, and the expr of a Return is its field expression.  Every   *)
(* function returns its result together with the context it leaves behind, *)
(* since the context is mutated in place whether the call succeeds or not. *)
(***************************************************************************)
Unit == [node |-> "Unit"]

CompileResult_Ok(v, ctx) == [ok |-> TRUE, val |-> v, ctx |-> ctx]

gen_err(pos, error_type, ctx) ==
    [ok |-> FALSE, error |-> [kind |-> error_type, pos |-> pos], ctx |-> ctx]

sig_of(f) == [name |-> f.name, return_type |-> f.return_type, args |-> f.args]

ExternalFunction_new(name, ret_type, args, span) ==
    [node |-> "ExternalFunction", name |-> name, return_type |-> ret_type, args |-> args,
     span |-> span]

(***************************************************************************)
(* The codegen context: the stack of scope frames, the builtin table, the  *)
(* functions of the IR module, the builder's position and the instructions *)
(* it has emitted.  log is the history of the operations on the context.   *)
(***************************************************************************)
NoBlock == [function |-> "", label |-> "", id |-> 0]

Context_new(name) ==
    [name |-> name, stack |-> <<>>, builtins |-> {}, module |-> <<>>, nbb |-> 0,
     builder |-> NoBlock, instructions |-> <<>>, log |-> <<>>]

Log(ctx, record) == [ctx EXCEPT !.log = Append(@, record)]

StackFrame_new(function, bb) ==
    [function |-> function, current_bb |-> bb, variables |-> {}, functions |-> {},
     complex_types |-> {}]

push_stack_frame(ctx, function, bb) ==
    Log([ctx EXCEPT !.stack = Append(@, StackFrame_new(function, bb))],
        [op |-> "push_stack_frame", name |-> function.name])

\* The log keeps the frame that is released.
pop_stack_frame(ctx) ==
    Log([ctx EXCEPT !.stack = SubSeq(@, 1, Len(@) - 1)],
        [op |-> "pop_stack_frame", name |-> ctx.stack[Len(ctx.stack)].function.name,
         frame |-> ctx.stack[Len(ctx.stack)]])

top_stack_frame(ctx) == ctx.stack[Len(ctx.stack)]

\* A table maps a name to one record: a later one replaces an earlier one.
Bind(table, record) == {e \in table : e.name # record.name} \cup {record}

add_variable(ctx, name, constant, typ) ==
    [ctx EXCEPT !.stack[Len(ctx.stack)].variables =
                    Bind(@, [name |-> name, constant |-> constant, typ |-> typ])]

add_function(ctx, fi) ==
    Log([ctx EXCEPT !.stack[Len(ctx.stack)].functions = Bind(@, fi)],
        [op |-> "add_function", name |-> fi.name])

add_complex_type(ctx, st) ==
    Log([ctx EXCEPT !.stack[Len(ctx.stack)].complex_types = Bind(@, st)],
        [op |-> "add_complex_type", name |-> st.name])

set_current_bb(ctx, bb) == [ctx EXCEPT !.stack[Len(ctx.stack)].current_bb = bb]

\* The names resolve through the frames, the innermost first, then the builtins.
Variables(ctx) == UNION {ctx.stack[i].variables : i \in 1..Len(ctx.stack)}

Functions(ctx) == UNION {ctx.stack[i].functions : i \in 1..Len(ctx.stack)} \cup ctx.builtins

ComplexTypes(ctx) == UNION {ctx.stack[i].complex_types : i \in 1..Len(ctx.stack)}

has_variable(ctx, name) == \E v \in Variables(ctx) : v.name = name

has_function(ctx, name) == \E f \in Functions(ctx) : f.name = name

Innermost(ctx, kind, name) ==
    CHOOSE i \in 1..Len(ctx.stack) :
        /\ \E e \in ctx.stack[i][kind] : e.name = name
        /\ \A j \in (i + 1)..Len(ctx.stack) : \A e \in ctx.stack[j][kind] : e.name # name

get_variable(ctx, name) ==
    CHOOSE v \in ctx.stack[Innermost(ctx, "variables", name)].variables : v.name = name

get_function(ctx, name) ==
    IF \E i \in 1..Len(ctx.stack) : \E f \in ctx.stack[i].functions : f.name = name
    THEN CHOOSE f \in ctx.stack[Innermost(ctx, "functions", name)].functions : f.name = name
    ELSE CHOOSE f \in ctx.builtins : f.name = name

get_complex_type(ctx, name) == {t \in ComplexTypes(ctx) : t.name = name}

NoLLVMType == "none"

resolve_type(ctx, typ) ==
    CASE typ.type = "Void" -> "void"
      [] typ.type = "Primitive" /\ typ.name = "int" -> "i64"
      [] typ.type \in {"Primitive", "Struct", "Union"} /\ typ.name # "int" ->
            IF get_complex_type(ctx, typ.name) # {} THEN typ.name ELSE NoLLVMType
      [] OTHER -> NoLLVMType

(***************************************************************************)
(* The IR builder.                                                         *)
(***************************************************************************)
LLVMAddFunction(ctx, name) ==
    Log([ctx EXCEPT !.module = Append(@, name)], [op |-> "LLVMAddFunction", name |-> name])

\* The handle of the block that LLVMAppendBasicBlock creates next.
NewBlock(ctx, function, label) ==
    [function |-> function.name, label |-> label, id |-> ctx.nbb + 1]

LLVMAppendBasicBlock(ctx, function, label) ==
    Log([ctx EXCEPT !.nbb = @ + 1], [op |-> label, name |-> function.name])

LLVMPositionBuilderAtEnd(ctx, bb) == [ctx EXCEPT !.builder = bb]

\* An instruction is emitted into the block at which the builder is positioned;
\* targets are the blocks a branch leads to.
Build(ctx, inst) ==
    [ctx EXCEPT !.instructions =
                    Append(@, [inst |-> inst, bb |-> ctx.builder, targets |-> <<>>])]

LLVMBuildBr(ctx, dest) ==
    [ctx EXCEPT !.instructions =
                    Append(@, [inst |-> "Br", bb |-> ctx.builder, targets |-> <<dest>>])]

LLVMBuildCondBr(ctx, then_bb, else_bb) ==
    [ctx EXCEPT !.instructions =
                    Append(@, [inst |-> "CondBr", bb |-> ctx.builder,
                               targets |-> <<then_bb, else_bb>>])]

Terminators == {"Ret", "RetVoid", "Br", "CondBr"}

\* What a call of a lowering function finds and what it leaves behind: the
\* position of the builder, the current block and the return type of the top
\* frame, the numbers of blocks, instructions and log records and the tables
\* in scope.
Snapshot(ctx) ==
    [builder |-> ctx.builder,
     current_bb |-> IF ctx.stack = <<>> THEN NoBlock ELSE top_stack_frame(ctx).current_bb,
     return_type |-> IF ctx.stack = <<>> THEN NoLLVMType
                     ELSE top_stack_frame(ctx).function.return_type,
     log |-> Len(ctx.log),
     blocks |-> ctx.nbb,
     instructions |-> Len(ctx.instructions),
     depth |-> Len(ctx.stack),
     variables |-> Variables(ctx),
     functions |-> Functions(ctx),
     complex_types |-> ComplexTypes(ctx)]

\* The log keeps the call op on the statement, its outcome r and the contexts
\* at its entry and at its return.
Traced(op, before, stmt, r) ==
    [r EXCEPT !.ctx = Log(@, [op |-> op, name |-> stmt.node, stmt |-> stmt, ok |-> r.ok,
                              error |-> IF r.ok THEN "none" ELSE r.error.kind,
                              pos |-> IF r.ok THEN 0 ELSE r.error.pos,
                              before |-> Snapshot(before), after |-> Snapshot(r.ctx)])]

LLVMGetLastInstruction(ctx, bb) ==
    LET own == {i \in 1..Len(ctx.instructions) : ctx.instructions[i].bb = bb} IN
    IF own = {} THEN "null"
    ELSE ctx.instructions[CHOOSE i \in own : \A j \in own : j <= i].inst

(***************************************************************************)
(* Expressions (codegen/expressions.rs): literals, name references and     *)
(* calls.  A value is its IR type.                                         *)
(***************************************************************************)
RECURSIVE Gen(_, _)

\* for e in expressions { try!(gen_expression(ctx, e)) }
gen_expressions(ctx, args) ==
    IF args = <<>> THEN CompileResult_Ok(Unit, ctx)
    ELSE LET a == Gen("gen_expression", <<ctx, Head(args)>>) IN
         IF ~a.ok THEN a ELSE Gen("gen_expressions", <<a.ctx, Tail(args)>>)

gen_expression(ctx, e) ==
    CASE e.node = "IntLiteral" -> CompileResult_Ok([typ |-> "i64"], ctx)
      [] e.node = "NameRef" ->
            IF has_variable(ctx, e.name)
            THEN CompileResult_Ok([typ |-> resolve_type(ctx, get_variable(ctx, e.name).typ)],
                                  Build(ctx, "Load"))
            ELSE gen_err(e.span.start, "UnknownName", ctx)
      [] e.node = "Call" ->
            IF has_function(ctx, e.name)
            THEN LET args == Gen("gen_expressions", <<ctx, e.args>>) IN
                 IF ~args.ok THEN args
                 ELSE CompileResult_Ok([typ |-> get_function(ctx, e.name).return_type],
                                       Build(args.ctx, "Call"))
            ELSE gen_err(e.span.start, "UnknownName", ctx)
      [] OTHER -> gen_err(e.span.start, "TypeError", ctx)

infer_type(ctx, e) ==
    CASE e.node = "IntLiteral" -> CompileResult_Ok(Type_Primitive(0, "int"), ctx)
      [] e.node = "NameRef" /\ has_variable(ctx, e.name) ->
            CompileResult_Ok(get_variable(ctx, e.name).typ, ctx)
      [] e.node = "Call" /\ has_function(ctx, e.name) ->
            CompileResult_Ok(get_function(ctx, e.name).sig.return_type, ctx)
      [] OTHER -> gen_err(e.span.start, "TypeError", ctx)

(***************************************************************************)
(* Statements (codegen/statements.rs).                                     *)
(***************************************************************************)
gen_import(ctx, import) == gen_err(0, "UnexpectedEOF", ctx)

gen_variable(ctx, v) ==
    IF has_variable(ctx, v.name)
    THEN gen_err(v.span.start, "RedefinitionOfVariable", ctx)
    ELSE LET initial_value == Gen("gen_expression", <<ctx, v.init>>) IN
         IF ~initial_value.ok THEN initial_value
         ELSE LET v_typ == IF v.typ = NoType
                           THEN infer_type(initial_value.ctx, v.init)
                           ELSE CompileResult_Ok(v.typ, initial_value.ctx)
              IN  IF ~v_typ.ok THEN v_typ
                  ELSE LET llvm_type_ref == resolve_type(v_typ.ctx, v_typ.val) IN
                       IF llvm_type_ref = NoLLVMType \/ llvm_type_ref # initial_value.val.typ
                       THEN gen_err(v.span.start, "TypeError", v_typ.ctx)
                       ELSE CompileResult_Ok(Unit,
                                add_variable(Build(Build(v_typ.ctx, "Alloca"), "Store"),
                                             v.name, v.is_const, v_typ.val))

\* for v in vars { try!(gen_variable(ctx, v)) }
RECURSIVE gen_variables(_, _)
gen_variables(ctx, variables) ==
    IF variables = <<>> THEN CompileResult_Ok(Unit, ctx)
    ELSE LET r == gen_variable(ctx, Head(variables)) IN
         IF ~r.ok THEN r ELSE gen_variables(r.ctx, Tail(variables))

gen_function_sig(ctx, sig, public, span) ==
    LET ret_type == resolve_type(ctx, sig.return_type)
        arg_types == [i \in 1..Len(sig.args) |-> resolve_type(ctx, sig.args[i].typ)]
        unresolved == {i \in 1..Len(sig.args) : arg_types[i] = NoLLVMType}
    IN  IF ret_type = NoLLVMType THEN gen_err(span.start, "TypeError", ctx)
        ELSE IF unresolved # {}
        THEN gen_err(sig.args[CHOOSE i \in unresolved : \A j \in unresolved : i <= j].span.start,
                     "TypeError", ctx)
        ELSE CompileResult_Ok([name |-> sig.name, args |-> arg_types, return_type |-> ret_type,
                               function |-> [name |-> sig.name, return_type |-> ret_type],
                               sig |-> sig, public |-> public],
                              LLVMAddFunction(ctx, sig.name))

\* The loop of gen_function over the arguments: a slot for each, bound to its name.
RECURSIVE gen_function_args(_, _)
gen_function_args(ctx, args) ==
    IF args = <<>> THEN ctx
    ELSE gen_function_args(add_variable(Build(Build(ctx, "Alloca"), "Store"),
                                         Head(args).name, Head(args).constant, Head(args).typ),
                           Tail(args))

\* for s in statements { try!(gen_statement(ctx, s)) }
gen_statements(ctx, statements) ==
    IF statements = <<>> THEN CompileResult_Ok(Unit, ctx)
    ELSE LET r == Gen("gen_statement", <<ctx, Head(statements)>>) IN
         IF ~r.ok THEN r ELSE Gen("gen_statements", <<r.ctx, Tail(statements)>>)

\* gen_function between its entry and its return.
gen_function_run(ctx, f) ==
    IF has_function(ctx, f.name)
    THEN gen_err(f.span.start, "RedefinitionOfFunction", ctx)
    ELSE LET fi == gen_function_sig(ctx, sig_of(f), f.public, f.span) IN
         IF ~fi.ok THEN fi
         ELSE LET bb == NewBlock(fi.ctx, fi.val.function, "entry")
                  positioned == LLVMPositionBuilderAtEnd(
                                    LLVMAppendBasicBlock(fi.ctx, fi.val.function, "entry"), bb)
                  pushed == push_stack_frame(positioned, fi.val.function, bb)
                  body == Gen("gen_statements",
                              <<gen_function_args(pushed, f.args), f.block.statements>>)
              IN  IF ~body.ok THEN body
                  ELSE LET returned == IF f.return_type = Type_Void
                                       THEN Build(body.ctx, "RetVoid")
                                       ELSE body.ctx
                           popped == pop_stack_frame(returned)
                       IN  CompileResult_Ok(fi.val,
                               LLVMPositionBuilderAtEnd(popped, top_stack_frame(popped).current_bb))

\* gen_function; the log keeps its argument, its outcome and the depth of the
\* frame stack at its entry and at its return.
gen_function(ctx, f) ==
    LET r == Gen("gen_function_run", <<ctx, f>>) IN
    [r EXCEPT !.ctx = Log(@, [op |-> "gen_function", name |-> f.name, ok |-> r.ok,
                              function |-> f,
                              entry_depth |-> Len(ctx.stack),
                              return_depth |-> Len(r.ctx.stack)])]

gen_external_function(ctx, f) ==
    LET fi == gen_function_sig(ctx, sig_of(f), TRUE, f.span) IN
    IF ~fi.ok THEN fi ELSE CompileResult_Ok(Unit, add_function(fi.ctx, fi.val))

gen_block(ctx, b) == Gen("gen_statements", <<ctx, b.statements>>)

\* gen_while with a body that leaves the loop: its last branch leads to done.
gen_while_once(ctx, f) ==
    LET func == top_stack_frame(ctx).function
        loop_cond_bb == NewBlock(ctx, func, "loop_cond")
        c1 == LLVMAppendBasicBlock(ctx, func, "loop_cond")
        loop_body_bb == NewBlock(c1, func, "loop_body")
        c2 == LLVMAppendBasicBlock(c1, func, "loop_body")
        post_loop_bb == NewBlock(c2, func, "loop_done")
        c3 == LLVMAppendBasicBlock(c2, func, "loop_done")
        cond == Gen("gen_expression",
                    <<LLVMPositionBuilderAtEnd(LLVMBuildBr(c3, loop_cond_bb), loop_cond_bb),
                      f.cond>>)
    IN  IF ~cond.ok THEN cond
        ELSE LET c4 == set_current_bb(
                           LLVMPositionBuilderAtEnd(
                               LLVMBuildCondBr(cond.ctx, loop_body_bb, post_loop_bb),
                               loop_body_bb),
                           loop_body_bb)
                 block == Gen("gen_block", <<c4, f.block>>)
             IN  IF ~block.ok THEN block
                 ELSE CompileResult_Ok(Unit,
                          set_current_bb(
                              LLVMPositionBuilderAtEnd(LLVMBuildBr(block.ctx, post_loop_bb),
                                                       post_loop_bb),
                              post_loop_bb))

gen_while(ctx, f) ==
    LET func == top_stack_frame(ctx).function
        loop_cond_bb == NewBlock(ctx, func, "loop_cond")
        c1 == LLVMAppendBasicBlock(ctx, func, "loop_cond")
        loop_body_bb == NewBlock(c1, func, "loop_body")
        c2 == LLVMAppendBasicBlock(c1, func, "loop_body")
        post_loop_bb == NewBlock(c2, func, "loop_done")
        c3 == LLVMAppendBasicBlock(c2, func, "loop_done")
        cond == Gen("gen_expression",
                    <<LLVMPositionBuilderAtEnd(LLVMBuildBr(c3, loop_cond_bb), loop_cond_bb),
                      f.cond>>)
    IN  IF ~cond.ok THEN cond
        ELSE LET c4 == set_current_bb(
                           LLVMPositionBuilderAtEnd(
                               LLVMBuildCondBr(cond.ctx, loop_body_bb, post_loop_bb),
                               loop_body_bb),
                           loop_body_bb)
                 block == Gen("gen_block", <<c4, f.block>>)
             IN  IF ~block.ok THEN block
                 ELSE CompileResult_Ok(Unit,
                          set_current_bb(
                              LLVMPositionBuilderAtEnd(LLVMBuildBr(block.ctx, loop_cond_bb),
                                                       post_loop_bb),
                              post_loop_bb))

\* gen_if between its entry and its return.
gen_if_run(ctx, f) ==
    LET func == top_stack_frame(ctx).function
        if_bb == NewBlock(ctx, func, "if_bb")
        c1 == LLVMAppendBasicBlock(ctx, func, "if_bb")
        after_if_bb == NewBlock(c1, func, "after_if_bb")
        c2 == LLVMAppendBasicBlock(c1, func, "after_if_bb")
        else_bb == NewBlock(c2, func, "else_bb")
        c3 == LLVMAppendBasicBlock(c2, func, "else_bb")
        cond == Gen("gen_expression", <<c3, f.cond>>)
    IN  IF ~cond.ok THEN cond
        ELSE LET if_block == Gen("gen_block",
                                 <<LLVMPositionBuilderAtEnd(
                                       LLVMBuildCondBr(cond.ctx, if_bb, else_bb), if_bb),
                                   f.if_block>>)
             IN  IF ~if_block.ok THEN if_block
                 ELSE LET c4 == LLVMPositionBuilderAtEnd(LLVMBuildBr(if_block.ctx, after_if_bb),
                                                        else_bb)
                          else_part ==
                              CASE f.else_part.node = "ElseBlock" ->
                                      Gen("gen_block", <<c4, f.else_part.block>>)
                                [] f.else_part.node = "Empty" -> CompileResult_Ok(Unit, c4)
                                [] f.else_part.node = "ElseIf" ->
                                      Gen("gen_if", <<c4, f.else_part.stmt>>)
                      IN  IF ~else_part.ok THEN else_part
                          ELSE CompileResult_Ok(Unit,
                                   set_current_bb(
                                       LLVMPositionBuilderAtEnd(
                                           LLVMBuildBr(else_part.ctx, after_if_bb),
                                           after_if_bb),
                                       after_if_bb))

gen_if(ctx, f) ==
    LET r == Gen("gen_if_run", <<ctx, f>>) IN Traced("gen_if", ctx, f, r)

\* gen_return without the comparison of the types.
gen_return_unchecked(ctx, f) ==
    LET ret == Gen("gen_expression", <<ctx, f.expression>>) IN
    IF ~ret.ok THEN ret ELSE CompileResult_Ok(Unit, Build(ret.ctx, "Ret"))

gen_return(ctx, f) ==
    LET ret == Gen("gen_expression", <<ctx, f.expression>>) IN
    IF ~ret.ok THEN ret
    ELSE IF ret.val.typ # top_stack_frame(ret.ctx).function.return_type
    THEN gen_err(f.span.start, "TypeError", ret.ctx)
    ELSE CompileResult_Ok(Unit, Build(ret.ctx, "Ret"))

\* The loop of gen_struct over the member variables: the member types.
RECURSIVE gen_struct_members(_, _, _)
gen_struct_members(ctx, variables, members) ==
    IF variables = <<>> THEN CompileResult_Ok(members, ctx)
    ELSE LET v == Head(variables)
             typ == IF v.typ = NoType THEN infer_type(ctx, v.init)
                    ELSE CompileResult_Ok(v.typ, ctx)
         IN  IF ~typ.ok THEN typ
             ELSE IF resolve_type(ctx, typ.val) = NoLLVMType
             THEN gen_err(v.span.start, "TypeError", ctx)
             ELSE gen_struct_members(ctx, Tail(variables),
                      Append(members, [name |-> v.name, typ |-> typ.val,
                                       llvm_typ |-> resolve_type(ctx, typ.val),
                                       constant |-> v.is_const, public |-> v.public]))

\* The loop of gen_struct over the methods.
gen_struct_functions(ctx, functions) ==
    IF functions = <<>> THEN CompileResult_Ok(Unit, ctx)
    ELSE LET func == Gen("gen_function", <<ctx, Head(functions)>>) IN
         IF ~func.ok THEN func
         ELSE Gen("gen_struct_functions", <<add_function(func.ctx, func.val), Tail(functions)>>)

\* gen_struct that registers the type before it looks at the members.
gen_struct_eager(ctx, s) ==
    IF get_complex_type(ctx, s.name) # {}
    THEN gen_err(s.span.start, "RedefinitionOfStruct", ctx)
    ELSE LET members == gen_struct_members(
                            add_complex_type(ctx, [name |-> s.name, members |-> <<>>]),
                            s.variables, <<>>)
         IN  IF ~members.ok THEN members
             ELSE Gen("gen_struct_functions",
                      <<add_complex_type(members.ctx,
                                         [name |-> s.name, members |-> members.val]),
                        s.functions>>)

gen_struct(ctx, s) ==
    IF get_complex_type(ctx, s.name) # {}
    THEN gen_err(s.span.start, "RedefinitionOfStruct", ctx)
    ELSE LET members == gen_struct_members(ctx, s.variables, <<>>) IN
         IF ~members.ok THEN members
         ELSE Gen("gen_struct_functions",
                  <<add_complex_type(members.ctx, [name |-> s.name, members |-> members.val]),
                    s.functions>>)

gen_union(ctx, f) == gen_err(0, "UnexpectedEOF", ctx)

gen_match(ctx, f) == gen_err(0, "UnexpectedEOF", ctx)

\* gen_statement between its entry and its return.
gen_statement_run(ctx, stmt) ==
    CASE stmt.node = "Import" -> gen_import(ctx, stmt)
      [] stmt.node = "Variables" -> gen_variables(ctx, stmt.vars)
      [] stmt.node = "Function" ->
            LET function_instance == Gen("gen_function", <<ctx, stmt>>) IN
            IF ~function_instance.ok THEN function_instance
            ELSE CompileResult_Ok(Unit, add_function(function_instance.ctx, function_instance.val))
      [] stmt.node = "ExternalFunction" -> gen_external_function(ctx, stmt)
      [] stmt.node = "While" -> Gen("gen_while", <<ctx, stmt>>)
      [] stmt.node = "If" -> Gen("gen_if", <<ctx, stmt>>)
      [] stmt.node = "Return" -> gen_return(ctx, stmt)
      [] stmt.node = "Struct" -> Gen("gen_struct", <<ctx, stmt>>)
      [] stmt.node = "Union" -> gen_union(ctx, stmt)
      [] stmt.node = "Match" -> gen_match(ctx, stmt)
      [] stmt.node = "Expression" ->
            LET e == Gen("gen_expression", <<ctx, stmt.expression>>) IN
            IF ~e.ok THEN e ELSE CompileResult_Ok(Unit, e.ctx)

gen_statement(ctx, stmt) ==
    LET r == Gen("gen_statement_run", <<ctx, stmt>>) IN Traced("gen_statement", ctx, stmt, r)

\* LLVMVerifyModule: the verdict of the IR verifier on the module, which the
\* IR provider decides.
verify_module(ctx, verdict) ==
    IF ~verdict
    THEN gen_err(0, "CodegenError", Log(ctx, [op |-> "verify", name |-> "failed"]))
    ELSE CompileResult_Ok(Unit, Log(ctx, [op |-> "verify", name |-> "passed"]))

gen_program(ctx, p, verdict) ==
    LET function == [name |-> "main", return_type |-> "i64"]
        c1 == LLVMAddFunction(ctx, "main")
        bb == NewBlock(c1, function, "entry")
        c2 == push_stack_frame(
                  LLVMPositionBuilderAtEnd(LLVMAppendBasicBlock(c1, function, "entry"), bb),
                  function, bb)
        block == Gen("gen_block", <<c2, p.block>>)
    IN  IF ~block.ok THEN block
        ELSE LET last == LLVMGetLastInstruction(block.ctx, top_stack_frame(block.ctx).current_bb)
                 c3 == IF last \notin Terminators THEN Build(block.ctx, "Ret") ELSE block.ctx
             IN  verify_module(c3, verdict)

(***************************************************************************)
(* The methods of the context that hand the module to the IR provider, and *)
(* the provider's answers: llvm.creates, llvm.verifies, llvm.optimizes and *)
(* llvm.emits say whether it creates the context, accepts the module,      *)
(* optimizes it and writes the object file.                                *)
(***************************************************************************)
Context_verify(ctx, llvm) == verify_module(ctx, llvm.verifies)

Context_optimize(ctx, llvm) ==
    IF llvm.optimizes
    THEN CompileResult_Ok(Unit, Log(ctx, [op |-> "optimize", name |-> "passed"]))
    ELSE gen_err(0, "CodegenError", Log(ctx, [op |-> "optimize", name |-> "failed"]))

Context_gen_object_file(ctx, opts, llvm) ==
    IF llvm.emits
    THEN CompileResult_Ok(opts.program_name,
                          Log(ctx, [op |-> "gen_object_file", name |-> "passed"]))
    ELSE gen_err(0, "CodegenError", Log(ctx, [op |-> "gen_object_file", name |-> "failed"]))

LLVMDumpModule(ctx) == Log(ctx, [op |-> "LLVMDumpModule", name |-> ctx.name])

println(ctx, line) == Log(ctx, [op |-> "println", name |-> line])

(***************************************************************************)
(* codegen (codegen/mod.rs).                                               *)
(***************************************************************************)
gen_module(ctx, module) == Gen("gen_expressions", <<ctx, module.expressions>>)

\* codegen with the optimizer run on the module before it is verified.
codegen_optimize_unverified(m, opts, llvm) ==
    LET generated == gen_module(Context_new(m.name), m) IN
    IF ~generated.ok THEN generated
    ELSE LET optimized == IF opts.optimize THEN Context_optimize(generated.ctx, llvm)
                          ELSE generated
         IN  IF ~optimized.ok THEN optimized
             ELSE LET verified == Context_verify(optimized.ctx, llvm) IN
                  IF ~verified.ok THEN [verified EXCEPT !.ctx = LLVMDumpModule(@)]
                  ELSE LET ctx == IF opts.dump_ir
                                  THEN println(LLVMDumpModule(println(verified.ctx, "LLVM IR")),
                                               "----------------------")
                                  ELSE verified.ctx
                       IN  CompileResult_Ok(ctx, ctx)

codegen(m, opts, llvm) ==
    LET generated == gen_module(Context_new(m.name), m) IN
    IF ~generated.ok THEN generated
    ELSE LET verified == Context_verify(generated.ctx, llvm) IN
         IF ~verified.ok THEN [verified EXCEPT !.ctx = LLVMDumpModule(@)]
         ELSE LET optimized == IF opts.optimize THEN Context_optimize(verified.ctx, llvm)
                               ELSE verified
              IN  IF ~optimized.ok THEN optimized
                  ELSE LET ctx == IF opts.dump_ir
                                  THEN println(LLVMDumpModule(println(optimized.ctx, "LLVM IR")),
                                               "----------------------")
                                  ELSE optimized.ctx
                       IN  CompileResult_Ok(ctx, ctx)

(***************************************************************************)
(* The LLVM backend (llvmbackend/), on a module of bytecode functions.     *)
(***************************************************************************)
START_CODE_FUNCTION == "@start"

Type_Func == [type |-> "Func", name |-> "fn"]

pass_by_value(typ) == typ.type \in {"Void", "Primitive", "Func"}

ptr_type(typ) == [type |-> "Pointer", inner |-> typ]

\* The context of the backend starts with the frame of the module.
llvmbackend_Context_new(name) ==
    [Context_new(name) EXCEPT !.stack = <<StackFrame_new([name |-> "", return_type |-> "void"],
                                                         NoBlock)>>]

llvmbackend_resolve_type(ctx, typ) ==
    CASE typ.type = "Void" -> "void"
      [] typ.type = "Primitive" -> "i64"
      [] typ.type = "Func" -> "fn"
      [] OTHER -> "ptr"

make_function_instance(ctx, sig) ==
    [name |-> sig.name,
     args |-> [i \in 1..Len(sig.args) |->
                  IF pass_by_value(sig.args[i].typ)
                  THEN llvmbackend_resolve_type(ctx, sig.args[i].typ)
                  ELSE <<"ptr", llvmbackend_resolve_type(ctx, sig.args[i].typ)>>],
     return_type |-> llvmbackend_resolve_type(ctx, sig.return_type),
     function |-> "null",
     sig |-> sig]

llvmbackend_gen_function_sig(ctx, sig) ==
    LET fi == make_function_instance(ctx, sig)
        function == [name |-> sig.name, return_type |-> fi.return_type]
    IN  add_function(LLVMAddFunction(ctx, sig.name), [fi EXCEPT !.function = function])

gen_function_ptr(ctx, func_ptr, sig) ==
    [make_function_instance(ctx, sig) EXCEPT !.function = func_ptr]

anon_sig(name, ret_type, args) == [name |-> name, return_type |-> ret_type, args |-> args]

\* The loop of gen_function over the arguments.
RECURSIVE llvmbackend_gen_function_args(_, _)
llvmbackend_gen_function_args(ctx, args) ==
    IF args = <<>> THEN ctx
    ELSE LET arg == Head(args)
             var == [name |-> arg.name, return_type |-> "void"]
             bound ==
                 IF arg.typ.type = "Func"
                 THEN add_function(add_variable(ctx, arg.name, arg.constant, arg.typ),
                                   gen_function_ptr(ctx, var, anon_sig(arg.name, Type_Void, <<>>)))
                 ELSE IF pass_by_value(arg.typ)
                 THEN add_variable(ctx, arg.name, arg.constant, arg.typ)
                 ELSE add_variable(ctx, arg.name, arg.constant, ptr_type(arg.typ))
         IN  llvmbackend_gen_function_args(bound, Tail(args))

\* gen_instruction on a call and on a return; an unknown callee is a panic.
gen_instruction(ctx, inst) ==
    IF inst.inst = "Call" /\ ~has_function(ctx, inst.name)
    THEN gen_err(0, "Panic", ctx)
    ELSE CompileResult_Ok(Unit, Build(ctx, inst.inst))

RECURSIVE gen_instructions(_, _)
gen_instructions(ctx, instructions) ==
    IF instructions = <<>> THEN CompileResult_Ok(Unit, ctx)
    ELSE LET r == gen_instruction(ctx, Head(instructions)) IN
         IF ~r.ok THEN r ELSE gen_instructions(r.ctx, Tail(instructions))

\* blocks.insert(bb_ref, bb) on the map from the references of the bytecode
\* blocks to the basic blocks.
HashMap_insert(blocks, bb_ref, bb) ==
    {e \in blocks : e.ref # bb_ref} \cup {[ref |-> bb_ref, bb |-> bb]}

\* The two loops of gen_function over func.blocks, the bytecode blocks in the
\* order of their references: a basic block for each block that is not
\* named entry, then the instructions of each block in the basic block that
\* the map has for its reference; a reference that the map does not have
\* is a panic.
RECURSIVE gen_function_blocks(_, _, _, _)
\* gen_function_blocks that lowers every block into the entry block.
gen_function_blocks_shared(ctx, function, func_blocks, blocks) ==
    IF func_blocks = <<>> THEN [ctx |-> ctx, blocks |-> blocks]
    ELSE gen_function_blocks(ctx, function, Tail(func_blocks),
                             HashMap_insert(blocks, Head(func_blocks).ref,
                                            (CHOOSE e \in blocks : e.ref = 0).bb))

gen_function_blocks(ctx, function, func_blocks, blocks) ==
    IF func_blocks = <<>> THEN [ctx |-> ctx, blocks |-> blocks]
    ELSE IF Head(func_blocks).name # "entry"
    THEN gen_function_blocks(
             LLVMAppendBasicBlock(ctx, function, Head(func_blocks).name), function,
             Tail(func_blocks),
             HashMap_insert(blocks, Head(func_blocks).ref,
                            NewBlock(ctx, function, Head(func_blocks).name)))
    ELSE gen_function_blocks(ctx, function, Tail(func_blocks), blocks)

RECURSIVE gen_function_instructions(_, _, _)
gen_function_instructions(ctx, func_blocks, blocks) ==
    IF func_blocks = <<>> THEN CompileResult_Ok(blocks, ctx)
    ELSE LET found == {e \in blocks : e.ref = Head(func_blocks).ref} IN
         IF found = {} THEN gen_err(0, "UnknownBasicBlock", ctx)
         ELSE LET bb == (CHOOSE e \in found : TRUE).bb
                  r == gen_instructions(LLVMPositionBuilderAtEnd(ctx, bb),
                                        Head(func_blocks).instructions)
              IN  IF ~r.ok THEN r
                  ELSE gen_function_instructions(r.ctx, Tail(func_blocks), blocks)

llvmbackend_gen_function_run(ctx, func) ==
    IF ~has_function(ctx, func.sig.name) THEN gen_err(0, "Panic", ctx)
    ELSE LET fi == get_function(ctx, func.sig.name)
             entry_bb == NewBlock(ctx, fi.function, "entry")
             positioned == LLVMPositionBuilderAtEnd(
                               LLVMAppendBasicBlock(ctx, fi.function, "entry"), entry_bb)
             pushed == push_stack_frame(positioned, fi.function, entry_bb)
             bound == llvmbackend_gen_function_args(pushed, func.sig.args)
             mapped == gen_function_blocks(bound, fi.function, func.blocks,
                                           HashMap_insert({}, 0, entry_bb))
             r == gen_function_instructions(mapped.ctx, func.blocks, mapped.blocks)
         IN  IF ~r.ok THEN r ELSE CompileResult_Ok(r.val, pop_stack_frame(r.ctx))

\* gen_function of the backend; the log keeps its argument, its outcome, the
\* depth of the frame stack at its entry and at its return and its map of
\* the blocks.  A panic does not return.
llvmbackend_gen_function(ctx, func) ==
    LET r == Gen("llvmbackend_gen_function_run", <<ctx, func>>) IN
    IF ~r.ok THEN r
    ELSE [r EXCEPT !.ctx = Log(@, [op |-> "gen_function", name |-> func.sig.name,
                                   ok |-> r.ok, function |-> func, blocks |-> r.val,
                                   entry_depth |-> Len(ctx.stack),
                                   return_depth |-> Len(r.ctx.stack)])]

memcpy_sig ==
    [name |-> "memcpy", return_type |-> ptr_type(Type_Void),
     args |-> <<Argument_new("dst", ptr_type(Type_Void), FALSE, Span_zero),
                Argument_new("src", ptr_type(Type_Void), FALSE, Span_zero),
                Argument_new("size", Type_Primitive(0, "uint"), FALSE, Span_zero)>>]

add_libc_functions(ctx) == llvmbackend_gen_function_sig(ctx, memcpy_sig)

\* The first loop of llvm_code_generation: the signatures.
RECURSIVE gen_function_sigs(_, _)
gen_function_sigs(ctx, functions) ==
    IF functions = <<>> THEN ctx
    ELSE gen_function_sigs(
             IF Head(functions).sig.name # START_CODE_FUNCTION
             THEN llvmbackend_gen_function_sig(ctx, Head(functions).sig)
             ELSE ctx, Tail(functions))

\* The second loop of llvm_code_generation: the bodies.
gen_functions(ctx, functions) ==
    IF functions = <<>> THEN CompileResult_Ok(Unit, ctx)
    ELSE IF Head(functions).sig.name = START_CODE_FUNCTION
    THEN Gen("gen_functions", <<ctx, Tail(functions)>>)
    ELSE LET r == Gen("llvmbackend_gen_function", <<ctx, Head(functions)>>) IN
         IF ~r.ok THEN r ELSE Gen("gen_functions", <<r.ctx, Tail(functions)>>)

llvm_code_generation(bc_mod, options, llvm) ==
    IF ~llvm.creates THEN gen_err(0, "CodegenError", Context_new(bc_mod.name))
    ELSE LET sigs == gen_function_sigs(add_libc_functions(llvmbackend_Context_new(bc_mod.name)),
                                       bc_mod.functions)
             bodies == Gen("gen_functions", <<sigs, bc_mod.functions>>)
         IN  IF ~bodies.ok THEN bodies
             ELSE LET verified == Context_verify(bodies.ctx, llvm) IN
                  IF ~verified.ok THEN verified
                  ELSE LET object_file == Context_gen_object_file(verified.ctx, options, llvm) IN
                       IF ~object_file.ok THEN object_file
                       ELSE CompileResult_Ok(object_file.ctx, object_file.ctx)

\* The functions of code generation call each other through Gen.
Gen(fn, a) ==
    CASE fn = "gen_expression" -> gen_expression(a[1], a[2])
      [] fn = "gen_expressions" -> gen_expressions(a[1], a[2])
      [] fn = "gen_statements" -> gen_statements(a[1], a[2])
      [] fn = "gen_statement" -> gen_statement(a[1], a[2])
      [] fn = "gen_function" -> gen_function(a[1], a[2])
      [] fn = "gen_block" -> gen_block(a[1], a[2])
      [] fn = "gen_while" -> gen_while(a[1], a[2])
      [] fn = "gen_if" -> gen_if(a[1], a[2])
      [] fn = "gen_struct" -> gen_struct(a[1], a[2])
      [] fn = "gen_struct_functions" -> gen_struct_functions(a[1], a[2])
      [] fn = "gen_function_run" -> gen_function_run(a[1], a[2])
      [] fn = "gen_if_run" -> gen_if_run(a[1], a[2])
      [] fn = "gen_statement_run" -> gen_statement_run(a[1], a[2])
      [] fn = "gen_program" -> gen_program(a[1], a[2], a[3])
      [] fn = "codegen" -> codegen(a[1], a[2], a[3])
      [] fn = "llvmbackend_gen_function_run" -> llvmbackend_gen_function_run(a[1], a[2])
      [] fn = "llvmbackend_gen_function" -> llvmbackend_gen_function(a[1], a[2])
      [] fn = "gen_functions" -> gen_functions(a[1], a[2])
      [] fn = "llvm_code_generation" -> llvm_code_generation(a[1], a[2], a[3])

(***************************************************************************)
(* SpecCodegen: a program of at most MaxStatements top-level statements,   *)
(* a module of at most MaxStatements expressions or a bytecode module of   *)
(* at most MaxStatements functions is built (prog), a function body of at  *)
(* most MaxBody statements or instructions, and one of the entry points    *)
(* gen_program, codegen and llvm_code_generation then runs on it (cg).     *)
(***************************************************************************)
One == IntLiteral(Span_zero, <<"1">>)

IntType == Type_Primitive(0, "int")

Var(name) == Statement_Variable(<<Variable_new(name, NoType, FALSE, FALSE, One, Span_zero)>>)

\* func f(x: int), func h(x: U) and functions without arguments.
Func(name, ret_type) ==
    Function_new(name, ret_type,
                 CASE name = "f" -> <<Argument_new("x", IntType, FALSE, Span_zero)>>
                   [] name = "h" -> <<Argument_new("x", Type_Union(0, "U"), FALSE, Span_zero)>>
                   [] OTHER -> <<>>,
                 FALSE, Block_new(<<>>), Span_zero)

\* union U: A
UnionU == [Union_new("U", FALSE, Span_zero) EXCEPT !.cases = <<UnionCase_new("A", Span_zero)>>]

\* match x: A: (an empty block)
MatchX ==
    [Match_new(name_ref("x", Span_zero), Span_zero) EXCEPT
        !.cases = <<MatchCase_new("A", <<>>, Block_new(<<>>), Span_zero)>>]

ToplevelStatements ==
    {Var("f"), Var("x"),
     ExternalFunction_new("f", Type_Void, <<>>, Span_zero),
     UnionU, Func("h", Type_Void),
     [Struct_new("S", FALSE, Span_zero) EXCEPT !.functions = <<Func("m", Type_Void)>>]}
        \cup {Func(name, ret_type) : name \in {"f", "g"}, ret_type \in {Type_Void, IntType}}

BodyStatements ==
    {Var("x"),
     Statement_Expression(Call_new("g", <<>>, Span_zero)),
     Return_new(One, Span_zero),
     MatchX,
     While_new(One, Block_new(<<>>), Span_zero),
     If_new(One, Block_new(<<>>), ElsePart_Empty, Span_zero)}

ModuleExpressions == {One, name_ref("x", Span_zero), Call_new("f", <<>>, Span_zero)}

ByteCodeFunction(name, args) ==
    [sig |-> [name |-> name, return_type |-> Type_Void, args |-> args],
     blocks |-> <<[ref |-> 0, name |-> "entry", instructions |-> <<>>]>>]

ByteCodeFunctions ==
    {ByteCodeFunction("f", <<>>),
     ByteCodeFunction("f", <<Argument_new("x", Type_Func, FALSE, Span_zero)>>),
     ByteCodeFunction("g", <<Argument_new("x", IntType, FALSE, Span_zero)>>),
     ByteCodeFunction(START_CODE_FUNCTION, <<>>)}

Instructions ==
    {[inst |-> "Call", name |-> "f"], [inst |-> "Call", name |-> "g"],
     [inst |-> "Ret", name |-> ""]}

Statements == IF prog.kind = "Program" THEN prog.block.statements ELSE <<>>

Expressions == IF prog.kind = "Module" THEN prog.expressions ELSE <<>>

ModuleFunctions == IF prog.kind = "ByteCodeModule" THEN prog.functions ELSE <<>>

\* The parser hands over one more top-level statement.
AddStatement ==
    /\ cg.entry = "none"
    /\ prog.kind \in {"none", "Program"}
    /\ Len(Statements) < MaxStatements
    /\ \E s \in ToplevelStatements :
          prog' = [kind |-> "Program", block |-> Block_new(Append(Statements, s))]
    /\ UNCHANGED <<tokens, pc, result, entry, parse_mode, cg>>

\* The parser hands over one more statement of the body of the last function.
AddBodyStatement ==
    /\ cg.entry = "none"
    /\ prog.kind = "Program"
    /\ Last(Statements).node = "Function"
    /\ Len(Last(Statements).block.statements) < MaxBody
    /\ \E s \in BodyStatements :
          prog' = [prog EXCEPT !.block.statements[Len(Statements)].block.statements =
                                   Append(@, s)]
    /\ UNCHANGED <<tokens, pc, result, entry, parse_mode, cg>>

\* One more expression of a module.
AddExpression ==
    /\ cg.entry = "none"
    /\ prog.kind \in {"none", "Module"}
    /\ Len(Expressions) < MaxStatements
    /\ \E e \in ModuleExpressions :
          prog' = [kind |-> "Module", name |-> "m", expressions |-> Append(Expressions, e)]
    /\ UNCHANGED <<tokens, pc, result, entry, parse_mode, cg>>

\* One more function of a bytecode module.
AddByteCodeFunction ==
    /\ cg.entry = "none"
    /\ prog.kind \in {"none", "ByteCodeModule"}
    /\ Len(ModuleFunctions) < MaxStatements
    /\ \E f \in ByteCodeFunctions :
          /\ \A i \in 1..Len(ModuleFunctions) : ModuleFunctions[i].sig.name # f.sig.name
          /\ prog' = [kind |-> "ByteCodeModule", name |-> "m",
                      functions |-> Append(ModuleFunctions, f)]
    /\ UNCHANGED <<tokens, pc, result, entry, parse_mode, cg>>

\* One more instruction of the entry block of the last bytecode function.
AddInstruction ==
    /\ cg.entry = "none"
    /\ prog.kind = "ByteCodeModule"
    /\ Len(Last(ModuleFunctions).blocks[1].instructions) < MaxBody
    /\ \E i \in Instructions :
          prog' = [prog EXCEPT !.functions[Len(ModuleFunctions)].blocks[1].instructions =
                                   Append(@, i)]
    /\ UNCHANGED <<tokens, pc, result, entry, parse_mode, cg>>

Provider == [creates : BOOLEAN, verifies : BOOLEAN, optimizes : BOOLEAN, emits : BOOLEAN]

CodeGenOptions == [optimize : BOOLEAN, dump_ir : BOOLEAN, program_name : {"a.out"}]

\* gen_program on the program.
GenProgram ==
    /\ cg.entry = "none"
    /\ prog.kind = "Program"
    /\ \E llvm \in Provider :
          /\ llvm.creates /\ llvm.optimizes /\ llvm.emits
          /\ cg' = [entry |-> "gen_program", llvm |-> llvm,
                    result |-> Gen("gen_program", <<Context_new("main"), prog, llvm.verifies>>)]
    /\ UNCHANGED <<tokens, pc, result, entry, parse_mode, prog>>

\* codegen on the module.
Codegen ==
    /\ cg.entry = "none"
    /\ prog.kind = "Module"
    /\ \E opts \in CodeGenOptions, llvm \in Provider :
          /\ llvm.creates /\ llvm.emits
          /\ cg' = [entry |-> "codegen", llvm |-> llvm, opts |-> opts,
                    result |-> Gen("codegen", <<prog, opts, llvm>>)]
    /\ UNCHANGED <<tokens, pc, result, entry, parse_mode, prog>>

\* llvm_code_generation on the bytecode module.
LLVMCodeGeneration ==
    /\ cg.entry = "none"
    /\ prog.kind = "ByteCodeModule"
    /\ \E opts \in CodeGenOptions, llvm \in Provider :
          /\ llvm.optimizes
          /\ cg' = [entry |-> "llvm_code_generation", llvm |-> llvm, opts |-> opts,
                    result |-> Gen("llvm_code_generation", <<prog, opts, llvm>>)]
    /\ UNCHANGED <<tokens, pc, result, entry, parse_mode, prog>>

NextCodegen ==
    \/ AddStatement
    \/ AddBodyStatement
    \/ AddExpression
    \/ AddByteCodeFunction
    \/ AddInstruction
    \/ GenProgram
    \/ Codegen
    \/ LLVMCodeGeneration

SpecCodegen == Init /\ [][NextCodegen]_vars

(***************************************************************************)
(* Claims on code generation, under SpecCodegen.                           *)
(***************************************************************************)
\* An entry point of code generation has run.
Ran == cg.entry # "none"

CodegenLog == cg.result.ctx.log

\* The calls of gen_function (of codegen/ and of llvmbackend/) that returned.
GenFunctionCalls == {i \in 1..Len(CodegenLog) : CodegenLog[i].op = "gen_function"}

\* C15: every call of gen_function, whether it returns Ok or an error raised
\* while lowering a body statement, leaves the frame stack as deep as it
\* found it: every push_stack_frame is matched by a pop_stack_frame.
C15_FramesReleased ==
    Ran => \A i \in GenFunctionCalls :
              CodegenLog[i].return_depth = CodegenLog[i].entry_depth

\* The functions of the program: the top-level functions of a Program, the
\* functions of a bytecode module that llvm_code_generation emits.
FunctionNames ==
    CASE prog.kind = "Program" ->
            {Statements[k].name : k \in {k \in 1..Len(Statements) :
                                            Statements[k].node = "Function"}}
      [] prog.kind = "ByteCodeModule" ->
            {ModuleFunctions[k].sig.name : k \in 1..Len(ModuleFunctions)}
                \ {START_CODE_FUNCTION}
      [] OTHER -> {}

\* The operation op on the name is in the log before its i-th record.
Before(i, op, name) ==
    \E j \in 1..(i - 1) : CodegenLog[j].op = op /\ CodegenLog[j].name = name

\* The records of the entry blocks of the functions: the starts of their bodies.
BodyStarts ==
    {i \in 1..Len(CodegenLog) :
        CodegenLog[i].op = "entry" /\ CodegenLog[i].name \in FunctionNames}

\* C16: function emission is two-pass: when the body of a function is
\* started, the signature of every function of the module, a later one and
\* the function itself included, has been emitted and registered in the
\* context.
C16_TwoPass ==
    Ran => \A i \in BodyStarts : \A g \in FunctionNames :
              Before(i, "LLVMAddFunction", g) /\ Before(i, "add_function", g)

\* The steps after emission: the optimizer, the --dump-ir listing and the
\* object file.
AfterEmission ==
    {i \in 1..Len(CodegenLog) : CodegenLog[i].op \in {"optimize", "println", "gen_object_file"}}

VerificationFailed ==
    \E j \in 1..Len(CodegenLog) : CodegenLog[j] = [op |-> "verify", name |-> "failed"]

\* C17: the optimizer, the --dump-ir listing and the object file come only
\* after the module passed verification; when verification fails the entry
\* point returns the verification error and no Context, and none of the
\* three has run.
C17_VerificationGates ==
    Ran => /\ \A i \in AfterEmission :
                 \E j \in 1..(i - 1) : CodegenLog[j] = [op |-> "verify", name |-> "passed"]
           /\ VerificationFailed
                 => /\ ~cg.result.ok
                    /\ cg.result.error = [kind |-> "CodegenError", pos |-> 0]
                    /\ AfterEmission = {}

\* codegen with --optimize and --dump-ir on a module that the verifier
\* rejects.
C17_Witness ==
    /\ cg.entry = "codegen"
    /\ cg.opts.optimize /\ cg.opts.dump_ir
    /\ Expressions # <<>>
    /\ VerificationFailed
    /\ ~cg.result.ok

\* The frames of the context: those on the stack and those that were released.
Frames ==
    {cg.result.ctx.stack[i] : i \in 1..Len(cg.result.ctx.stack)}
        \cup {CodegenLog[i].frame : i \in {i \in 1..Len(CodegenLog) :
                                              CodegenLog[i].op = "pop_stack_frame"}}

Unique(table) == \A a, b \in table : a.name = b.name => a = b

\* C18: after successful lowering no scope frame binds a name to more than
\* one entity: not to two variables, not to two functions, and not to a
\* variable and a function.
C18_NameUniqueness ==
    Ran /\ cg.result.ok =>
        \A frame \in Frames :
            /\ Unique(frame.variables)
            /\ Unique(frame.functions)
            /\ \A v \in frame.variables, f \in frame.functions : v.name # f.name

\* The program `union U: A` followed by `func h(x: U): match x: A: ...`.
MatchProgram ==
    /\ cg.entry = "gen_program"
    /\ Len(Statements) = 2
    /\ Statements[1] = UnionU
    /\ Statements[2] = [Func("h", Type_Void) EXCEPT !.block.statements = <<MatchX>>]

\* C19: a well-formed match over a declared union is lowered without error,
\* into a comparison of the tag and a basic block for its case.
C19_MatchLowering ==
    MatchProgram =>
        /\ cg.llvm.verifies => cg.result.ok
        /\ \E i \in 1..Len(cg.result.ctx.instructions) :
               cg.result.ctx.instructions[i].inst = "CondBr"

EndsInReturn(f) ==
    f.block.statements # <<>> /\ Last(f.block.statements).node = "Return"

\* The instructions emitted into the basic blocks of the function.
InstructionsOf(name) ==
    SelectSeq(cg.result.ctx.instructions, LAMBDA i : i.bb.function = name)

\* C20: gen_function ends the body of a function that returns Void with
\* `ret void`, and fails with an error on a function of another return type
\* whose body does not end in a return.
C20_BodyTermination ==
    cg.entry = "gen_program" =>
        \A i \in GenFunctionCalls :
            LET f == CodegenLog[i].function IN
            /\ f.return_type = Type_Void /\ CodegenLog[i].ok
                  => Last(InstructionsOf(f.name)).inst = "RetVoid"
            /\ f.return_type # Type_Void /\ ~EndsInReturn(f) => ~CodegenLog[i].ok

(***************************************************************************)
(* SpecLower: the statements with control flow.  The program is either the *)
(* function k with a body of at most MaxBody statements or at most         *)
(* MaxStatements top-level statements, which gen_program lowers into main; *)
(* the arms of an if and the body of a loop hold at most one statement.    *)
(***************************************************************************)
\* return 1 and return g(), at position 3
ReturnOne == Return_new(One, Span_new(3, 4))

ReturnCall == Return_new(Call_new("g", <<>>, Span_new(3, 4)), Span_new(3, 4))

Arms == {<<>>, <<ReturnOne>>, <<Func("g", Type_Void)>>}

Whiles ==
    {While_new(cond, Block_new(b), Span_zero) :
        cond \in {One, name_ref("x", Span_zero)}, b \in Arms}

ElseParts ==
    {ElsePart_Empty}
        \cup {ElsePart_Block(Block_new(b)) : b \in Arms}
        \cup {ElsePart_If(If_new(One, Block_new(b), ElsePart_Empty, Span_zero)) : b \in Arms}

Ifs == {If_new(One, Block_new(b), e, Span_zero) : b \in Arms, e \in ElseParts}

\* struct S with the members x = 1 and y: int, x: T of an unknown type T or
\* x = y of an unknown name y, without and with the method m
Members ==
    {<<>>,
     <<Variable_new("x", NoType, FALSE, FALSE, One, Span_zero),
       Variable_new("y", IntType, FALSE, FALSE, One, Span_zero)>>,
     <<Variable_new("x", Type_Struct(0, "T"), FALSE, FALSE, One, Span_new(5, 6))>>,
     <<Variable_new("x", NoType, FALSE, FALSE, name_ref("y", Span_new(7, 8)), Span_new(5, 6))>>}

Structs ==
    {[Struct_new("S", FALSE, Span_new(2, 3)) EXCEPT !.variables = v, !.functions = m] :
        v \in Members, m \in {<<>>, <<Func("m", Type_Void)>>}}

LowerStatements == {Var("x"), ReturnOne, ReturnCall, Func("g", Type_Void)} \cup Whiles \cup Ifs

\* The parser hands over the function k.
LowerFunction ==
    /\ cg.entry = "none"
    /\ prog.kind = "none"
    /\ \E ret_type \in {Type_Void, IntType} :
          prog' = [kind |-> "Program", block |-> Block_new(<<Func("k", ret_type)>>)]
    /\ UNCHANGED <<tokens, pc, result, entry, parse_mode, cg>>

\* One more statement of the body of k.
LowerBodyStatement ==
    /\ cg.entry = "none"
    /\ prog.kind = "Program"
    /\ Statements[1].node = "Function"
    /\ Len(Statements[1].block.statements) < MaxBody
    /\ \E s \in LowerStatements :
          prog' = [prog EXCEPT !.block.statements[1].block.statements = Append(@, s)]
    /\ UNCHANGED <<tokens, pc, result, entry, parse_mode, cg>>

\* One more top-level statement of a program without k.
LowerStatement ==
    /\ cg.entry = "none"
    /\ prog.kind = "none" \/ (prog.kind = "Program" /\ Statements[1].node # "Function")
    /\ Len(Statements) < MaxStatements
    /\ \E s \in LowerStatements \cup Structs :
          prog' = [kind |-> "Program", block |-> Block_new(Append(Statements, s))]
    /\ UNCHANGED <<tokens, pc, result, entry, parse_mode, cg>>

NextLower ==
    \/ LowerFunction
    \/ LowerBodyStatement
    \/ LowerStatement
    \/ GenProgram

SpecLower == Init /\ [][NextLower]_vars

(***************************************************************************)
(* Claims on the lowering of statements, under SpecLower.                  *)
(***************************************************************************)
Emitted == cg.result.ctx.instructions

\* The calls of gen_statement and of gen_if that returned.
Calls(op, node) ==
    {i \in 1..Len(CodegenLog) : CodegenLog[i].op = op /\ CodegenLog[i].name = node}

\* The instructions that the i-th record's call emitted, its own and those of
\* the calls nested in it.
Segment(i) == (CodegenLog[i].before.instructions + 1)..CodegenLog[i].after.instructions

\* The calls nested in the call of the i-th record.
Nested(i) ==
    {j \in 1..(i - 1) : /\ CodegenLog[j].op \in {"gen_statement", "gen_if"}
                        /\ CodegenLog[j].before.log >= CodegenLog[i].before.log}

BlockLabels ==
    {"entry", "loop_cond", "loop_body", "loop_done", "if_bb", "after_if_bb", "else_bb"}

\* The labels of the basic blocks that the call of the i-th record created
\* itself, in the order of their creation.
OwnBlocks(i) ==
    LET own(k) == /\ CodegenLog[k].op \in BlockLabels
                  /\ \A j \in Nested(i) :
                        ~(CodegenLog[j].before.log < k /\ k <= CodegenLog[j].after.log)
        RECURSIVE labels(_)
        labels(k) == IF k > CodegenLog[i].after.log THEN <<>>
                     ELSE IF own(k) THEN <<CodegenLog[k].op>> \o labels(k + 1)
                     ELSE labels(k + 1)
    IN  labels(CodegenLog[i].before.log + 1)

\* The block with the label that is the n-th block of the module.
IsBlock(bb, label, n) == bb.label = label /\ bb.id = n

\* C21: a lowered while has created exactly the three blocks cond, body and
\* done; its first instruction is a branch from the block the builder was in
\* to cond, the condition and then the conditional branch to body or done
\* follow in cond, the last instruction is a branch back to cond, and the
\* builder and the current block of the frame are both done afterwards.
C21_WhileLowering ==
    cg.entry = "gen_program" =>
        \A i \in Calls("gen_statement", "While") :
            LET c == CodegenLog[i]
                n == c.before.blocks
                first == c.before.instructions + 1
                last == c.after.instructions
                cond == Emitted[first].targets[1]
            IN  c.ok =>
                  /\ OwnBlocks(i) = <<"loop_cond", "loop_body", "loop_done">>
                  /\ Emitted[first].inst = "Br" /\ Emitted[first].bb = c.before.builder
                  /\ IsBlock(cond, "loop_cond", n + 1)
                  /\ \E j \in (first + 1)..(last - 1) :
                        /\ Emitted[j].inst = "CondBr" /\ Emitted[j].bb = cond
                        /\ IsBlock(Emitted[j].targets[1], "loop_body", n + 2)
                        /\ IsBlock(Emitted[j].targets[2], "loop_done", n + 3)
                        /\ \A k \in (first + 1)..(j - 1) :
                              Emitted[k].bb = cond /\ Emitted[k].inst \notin Terminators
                        /\ \A k \in (j + 1)..last : Emitted[k].bb # cond
                  /\ Emitted[last].inst = "Br" /\ Emitted[last].targets = <<cond>>
                  /\ IsBlock(c.after.builder, "loop_done", n + 3)
                  /\ c.after.current_bb = c.after.builder

\* A loop on a variable with a statement in its body has been lowered.
C21_Witness ==
    /\ cg.entry = "gen_program"
    /\ \E i \in Calls("gen_statement", "While") :
          /\ CodegenLog[i].ok
          /\ CodegenLog[i].stmt.cond.node = "NameRef"
          /\ CodegenLog[i].stmt.block.statements # <<>>

\* C22: a lowered if has created exactly the three blocks then, after and
\* else; its conditional branch leads to then or else; the then arm and the
\* else arm (empty, a block or a nested if) each end with a branch to the
\* after block of this if that lies in a block of the arm; the builder and
\* the current block of the frame are both after afterwards.
C22_IfLowering ==
    cg.entry = "gen_program" =>
        \A i \in Calls("gen_if", "If") :
            LET c == CodegenLog[i]
                n == c.before.blocks
                last == c.after.instructions
                after == c.after.builder
                InArm(bb) == bb.id > n /\ bb.function = after.function
            IN  c.ok =>
                  /\ OwnBlocks(i) = <<"if_bb", "after_if_bb", "else_bb">>
                  /\ IsBlock(after, "after_if_bb", n + 2)
                  /\ c.after.current_bb = after
                  /\ \E j \in Segment(i) :
                        /\ Emitted[j].inst = "CondBr" /\ Emitted[j].bb = c.before.builder
                        /\ IsBlock(Emitted[j].targets[1], "if_bb", n + 1)
                        /\ IsBlock(Emitted[j].targets[2], "else_bb", n + 3)
                        /\ \E t \in (j + 1)..(last - 1) :
                              /\ Emitted[t].inst = "Br" /\ Emitted[t].targets = <<after>>
                              /\ InArm(Emitted[t].bb)
                              /\ \A k \in (j + 1)..(t - 1) : Emitted[k].bb # Emitted[j].targets[2]
                              /\ \A k \in (t + 1)..last : Emitted[k].bb # Emitted[j].targets[1]
                  /\ Emitted[last].inst = "Br" /\ Emitted[last].targets = <<after>>
                  /\ InArm(Emitted[last].bb)

\* The IR type of the expression of a return: of the literal 1, of a call.
ReturnedType(c) ==
    IF c.stmt.expression.node = "IntLiteral" THEN {"i64"}
    ELSE {f.return_type : f \in {f \in c.before.functions : f.name = c.stmt.expression.name}}

Rets(i) == {k \in Segment(i) : Emitted[k].inst = "Ret"}

\* C23: a return whose expression has an IR type emits a ret iff this type
\* is the return type of the function of the top frame; otherwise it fails
\* with a TypeError at the position of the return and emits no ret.
C23_ReturnLowering ==
    cg.entry = "gen_program" =>
        \A i \in Calls("gen_statement", "Return") :
            LET c == CodegenLog[i] IN
            \A typ \in ReturnedType(c) :
                /\ Rets(i) # {} <=> typ = c.before.return_type
                /\ typ = c.before.return_type => c.ok /\ Rets(i) = {c.after.instructions}
                /\ typ # c.before.return_type
                      => ~c.ok /\ c.error = "TypeError" /\ c.pos = c.stmt.span.start

\* return 1 in the function k that returns Void: a TypeError.
C23_Witness ==
    /\ cg.entry = "gen_program"
    /\ \E i \in Calls("gen_statement", "Return") :
          /\ CodegenLog[i].before.return_type = "void"
          /\ CodegenLog[i].stmt = ReturnOne
          /\ CodegenLog[i].error = "TypeError"
          /\ CodegenLog[i].pos = 3

\* The name that a variable statement or a function statement defines.
DefinedName(stmt) == IF stmt.node = "Variables" THEN stmt.vars[1].name ELSE stmt.name

\* C24: lowering a variable, a function or an external function whose name
\* is already defined in the scope fails with RedefinitionOfVariable or
\* RedefinitionOfFunction, emits no instruction and leaves the variable
\* and function tables as they were.
C24_RedefinitionChangesNothing ==
    Ran /\ cg.entry = "gen_program" =>
        \A i \in Calls("gen_statement", "Variables") \cup Calls("gen_statement", "Function")
                    \cup Calls("gen_statement", "ExternalFunction") :
            LET c == CodegenLog[i]
                table == IF c.stmt.node = "Variables" THEN c.before.variables
                         ELSE c.before.functions
            IN  (\E e \in table : e.name = DefinedName(c.stmt))
                    => /\ ~c.ok
                       /\ c.error = IF c.stmt.node = "Variables" THEN "RedefinitionOfVariable"
                                     ELSE "RedefinitionOfFunction"
                       /\ c.after.instructions = c.before.instructions
                       /\ c.after.variables = c.before.variables
                       /\ c.after.functions = c.before.functions

\* The basic blocks that hold an instruction or that a branch leads to.
BasicBlocks ==
    {Emitted[k].bb : k \in 1..Len(Emitted)}
        \cup UNION {{Emitted[k].targets[t] : t \in 1..Len(Emitted[k].targets)} :
                        k \in 1..Len(Emitted)}

\* C26: after gen_program has lowered a program, every basic block holds
\* exactly one terminator, and it is the last instruction of the block.
C26_SingleTerminator ==
    cg.entry = "gen_program" /\ cg.result.ok =>
        \A bb \in BasicBlocks :
            LET own == {k \in 1..Len(Emitted) : Emitted[k].bb = bb} IN
            /\ \E k \in own : Emitted[k].inst \in Terminators
            /\ \A k \in own : Emitted[k].inst \in Terminators => \A j \in own : j <= k

\* C27: whenever a statement is lowered the builder is positioned at the
\* current block of the top frame, and after a nested function the builder
\* is back in the block where it was.
C27_EmissionPoint ==
    cg.entry = "gen_program" =>
        \A i \in 1..Len(CodegenLog) :
            LET c == CodegenLog[i] IN
            c.op = "gen_statement" =>
                /\ c.before.builder = c.before.current_bb
                /\ c.name = "Function" /\ c.ok => c.after.builder = c.before.builder

\* The type of the member can be determined: it is declared int, or left to
\* the initializer 1.
Determined(v) == IF v.typ = NoType THEN v.init.node = "IntLiteral" ELSE v.typ = IntType

BlockName(bb_ref) ==
    CASE bb_ref = 0 -> "entry"
      [] bb_ref = 1 -> "block1"
      [] bb_ref = 2 -> "block2"
      [] OTHER -> "block3"

BlockInstructions == {[inst |-> "Call", name |-> "f"], [inst |-> "Ret", name |-> ""]}

\* The function f() or g(x: int), with its entry block.
BlocksFunction ==
    /\ cg.entry = "none"
    /\ prog.kind = "none"
    /\ \E f \in {ByteCodeFunction("f", <<>>),
                  ByteCodeFunction("g", <<Argument_new("x", IntType, FALSE, Span_zero)>>)} :
          prog' = [kind |-> "ByteCodeModule", name |-> "m", functions |-> <<f>>]
    /\ UNCHANGED <<tokens, pc, result, entry, parse_mode, cg>>

\* One more basic block of the function.
AddBasicBlock ==
    /\ cg.entry = "none"
    /\ prog.kind = "ByteCodeModule"
    /\ Len(ModuleFunctions[1].blocks) < MaxBody
    /\ prog' = [prog EXCEPT !.functions[1].blocks =
                    Append(@, [ref |-> Len(@), name |-> BlockName(Len(@)),
                               instructions |-> <<>>])]
    /\ UNCHANGED <<tokens, pc, result, entry, parse_mode, cg>>

\* One more instruction of the last basic block of the function.
AddBlockInstruction ==
    /\ cg.entry = "none"
    /\ prog.kind = "ByteCodeModule"
    /\ Len(Last(ModuleFunctions[1].blocks).instructions) < MaxBody
    /\ \E i \in BlockInstructions :
          prog' = [prog EXCEPT
                      !.functions[1].blocks[Len(ModuleFunctions[1].blocks)].instructions =
                          Append(@, i)]
    /\ UNCHANGED <<tokens, pc, result, entry, parse_mode, cg>>

NextBlocks ==
    \/ BlocksFunction
    \/ AddBasicBlock
    \/ AddBlockInstruction
    \/ LLVMCodeGeneration

SpecBlocks == Init /\ [][NextBlocks]_vars

\* The basic blocks that the map of the call has for the bytecode block.
Image(c, b) == {e.bb : e \in {e \in c.blocks : e.ref = b.ref}}

LoopIndents == {4, 8}

Id(val) == Item("Identifier", val)

LoopLines ==
    { <<>>,
      <<Id("a"), Item("Operator", "Assign"), Id("b")>>,
      <<Item("Var", ""), Id("a"), Item("Operator", "Assign"), Id("b")>>,
      <<Id("a"), Item("Operator", "Sub"), Id("b")>>,
      <<Id("f"), Item("OpenParen", ""), Id("a"), Item("Comma", ""), Id("b"),
        Item("CloseParen", "")>>,
      <<Id("f"), Item("OpenParen", ""), Id("a")>>,
      <<Id("S"), Item("OpenCurly", ""), Id("a"), Item("Comma", ""), Id("b"),
        Item("CloseCurly", "")>>,
      <<Id("S"), Item("OpenCurly", ""), Id("a")>>,
      <<Item("Struct", ""), Id("S"), Item("Colon", "")>>,
      <<Item("Union", ""), Id("U"), Item("Colon", "")>>,
      <<Id("A"), Item("OpenParen", ""), Id("x"), Item("Colon", ""), Id("T"),
        Item("CloseParen", ""), Item("Comma", ""), Id("B")>>,
      <<Item("Match", ""), Id("a"), Item("Colon", "")>>,
      <<Id("A"), Item("OpenParen", ""), Id("x"), Item("CloseParen", ""), Item("Colon", ""),
        Id("b")>>,
      <<Item("Func", ""), Id("g"), Item("OpenParen", ""), Item("CloseParen", ""),
        Item("Colon", ""), Id("a")>>,
      <<Item("If", ""), Id("a"), Item("Colon", ""), Id("b")>>,
      <<Item("Else", ""), Item("Colon", ""), Id("b")>> }

LoopLine ==
    /\ pc = "lex"
    /\ CountKind("Indent") < MaxLines
    /\ LastKind # "Indent"
    /\ \E level \in LoopIndents, line \in LoopLines :
          tokens' = LexAll(tokens, <<IndentItem(level)>> \o line)
    /\ UNCHANGED <<pc, result, entry, parse_mode, prog, cg>>

NextLoops == LoopLine \/ ParseStatement \/ ParseModule

SpecLoops == Init /\ [][NextLoops]_vars

C28_ParsingTerminates ==
    pc = "done"
        => /\ ~result.tq.stalled
           /\ entry = "parse_module"
                 => IF result.ok THEN result.val.node = "Module"
                    ELSE result.error.kind \notin {"NotRun", "Stalled"}

TheStatements == result.val.block.statements

\* A module with a union of two cases, parsed in several rounds.
C28_Witness ==
    /\ pc = "done"
    /\ entry = "parse_module"
    /\ result.ok
    /\ result.tq.rounds >= 4
    /\ \E i \in 1..Len(TheStatements) :
          TheStatements[i].node = "Union" /\ Len(TheStatements[i].cases) = 2

====
